---------------------------- MODULE Spec2Model ----------------------------
(***************************************************************************)
(* State regulator: the event-log pipeline of the reactive care scheduler. *)
(*                                                                         *)
(*   Normalizer  normalizeEventLog   (state.ts)                            *)
(*   Reducer     recomputeCoreState  (state.ts)                            *)
(*   Projector   computeOutputs      (constraints.ts)                      *)
(*   Event store App: addEvent / commitEdit / deleteEvent / clearAll and   *)
(*               the clock tick with its rebuild effect (App.tsx)          *)
(*                                                                         *)
(* Instants are milliseconds counted from 00:00 UTC of a reference day 0.  *)
(* The active time zone is the fallback "UTC" of resolveTimeZone, so the   *)
(* civil fields of an instant are its UTC day, hour and minute.            *)
(* Real-valued quantities are kept exact: estimatedSleepPressure is the    *)
(* numerator of a fraction over PressureDen, and a duration in minutes is  *)
(* kept in milliseconds and compared against minutes * MS_MIN.             *)
(***************************************************************************)
EXTENDS Integers, Sequences, FiniteSets, TLC

VARIABLES
    nowUtcMs,            \* App: the nowUtcMs React state (the authoritative "now")
    state,               \* App: the AppState React state (CoreState + eventLog + autoSuppressed)
    editId,              \* App: id of the event whose edit form is open, or NoEdit
    effectPending,       \* App: the [nowUtcMs] effect is scheduled and has not run yet
    idCounter,           \* user mutations so far; buildEvent's random id suffix is drawn from it
    userSuppressed,      \* history: the (type, time) of every auto event the user deleted or edited
    feedIntervalMinMin,  \* defaultConfig.feedIntervalMinMin, read by buildBaselineEvents
    rawLog,              \* pipeline inputs: a raw event log ...
    rawSuppressed,       \* ... and a suppression list
    piped,               \* rebuildFromLog(rawLog, nowUtcMs, rawSuppressed)
    foldEvents,          \* reducer input: a time-ordered event list
    foldCore,            \* recomputeCoreState(foldEvents, nowUtcMs)
    outputs,             \* computeOutputs(foldCore, nowUtcMs, timeZone, defaultConfig)
    stored,              \* storage: the value kept under STORAGE_KEY
    loaded               \* loadState(nowUtcMs) reading `stored`

vars == << nowUtcMs, state, editId, effectPending, idCounter, userSuppressed,
           feedIntervalMinMin, rawLog, rawSuppressed, piped, foldEvents, foldCore,
           outputs, stored, loaded >>

-----------------------------------------------------------------------------
(* Constants of the program *)

MS_MIN == 60 * 1000

DAY_START_HOUR == 7

BASELINE_TOLERANCE_MIN == 20

maxCycles == 8

\* null of a `number | null` field; every instant and duration is >= 0
Null == -1

\* Date.parse of a timestampUtc that is no date: Number.isNaN holds of it
NaN == -2

\* JavaScript truthiness of a `number | null` value: null and 0 are falsy
Truthy(x) == x # Null /\ x # 0

DayMs == 24 * 60 * 60 * 1000

EventType ==
    { "FirstAwake", "NapStarted", "NapEnded", "MilkGiven", "SolidsGiven",
      "RoutineStarted", "Asleep" }

\* candidate values of the feed interval the baseline walk reads
FeedIntervalMinMinChoices == { 120 }

defaultConfig ==
    [ minWakeWindowMin             |-> 75,
      maxWakeWindowMin             |-> 130,
      shortenWakeByMinIfShortNap   |-> 15,
      shortNapThresholdMin         |-> 45,
      lateNapHour                  |-> 15,
      bedtimeLatestHour            |-> 20,
      bedtimeLatestMinute          |-> 0,
      bedtimeEarlierByMinIfLateNap |-> 30,
      routineLatencyMin            |-> 25,
      setupLatencyMin              |-> 10,
      nextNapCapMinIfLateNap       |-> 40,
      feedIntervalMaxMin           |-> 180,
      expectedNapDurationMin       |-> 60,
      feedIntervalMinMin           |-> feedIntervalMinMin ]

-----------------------------------------------------------------------------
(* Helpers *)

Abs(x) == IF x < 0 THEN -x ELSE x

Max(a, b) == IF a >= b THEN a ELSE b

Min(a, b) == IF a <= b THEN a ELSE b

\* an instant given as day, hour and minute of the reference calendar
At(day, hour, minute) == day * DayMs + (hour * 60 + minute) * MS_MIN

\* Array.prototype.sort with the comparator a.ts - b.ts: a stable sort
InsertByTs(e, sorted) ==
    LET k == Cardinality({ i \in 1..Len(sorted) : sorted[i].ts <= e.ts })
    IN  SubSeq(sorted, 1, k) \o << e >> \o SubSeq(sorted, k + 1, Len(sorted))

RECURSIVE SortByTs(_)
SortByTs(s) ==
    IF s = << >> THEN << >>
    ELSE InsertByTs(s[Len(s)], SortByTs(SubSeq(s, 1, Len(s) - 1)))

Some(s, P(_)) == \E i \in 1..Len(s) : P(s[i])

-----------------------------------------------------------------------------
(* Civil time (time zone "UTC") *)

getZonedParts(utcMs) ==
    [ day    |-> utcMs \div DayMs,
      hour   |-> (utcMs % DayMs) \div (60 * MS_MIN),
      minute |-> ((utcMs % DayMs) % (60 * MS_MIN)) \div MS_MIN ]

getUtcMsFromZoned(zoned) == At(zoned.day, zoned.hour, zoned.minute)

\* getDayStartUtc without the step back to the day before
getDayStartUtcToday(utcNow) ==
    LET parts == getZonedParts(utcNow)
    IN  getUtcMsFromZoned([ day |-> parts.day, hour |-> DAY_START_HOUR, minute |-> 0 ])

getDayStartUtc(utcNow) ==
    LET parts == getZonedParts(utcNow)
        todayStart == getUtcMsFromZoned(
            [ day |-> parts.day, hour |-> DAY_START_HOUR, minute |-> 0 ])
    IN  IF todayStart > utcNow THEN todayStart - 24 * 60 * 60 * 1000
        ELSE todayStart

-----------------------------------------------------------------------------
(* Normalizer *)

AutoEvent(kind, type, ts) ==
    [ id |-> [ k |-> kind, t |-> ts, r |-> 0 ], type |-> type, ts |-> ts, auto |-> TRUE ]

\* hasMatchingEvent looking at logged events only
hasMatchingRealEvent(events, type, timestamp) ==
    LET tolerance == BASELINE_TOLERANCE_MIN * MS_MIN
    IN  \E i \in 1..Len(events) :
            /\ events[i].type = type
            /\ ~events[i].auto
            /\ Abs(events[i].ts - timestamp) <= tolerance

hasMatchingEvent(events, type, timestamp) ==
    LET tolerance == BASELINE_TOLERANCE_MIN * MS_MIN
    IN  \E i \in 1..Len(events) :
            /\ events[i].type = type
            /\ Abs(events[i].ts - timestamp) <= tolerance

\* isSuppressedAuto with the tolerance bound excluded
isSuppressedAutoStrict(suppressed, type, timestamp) ==
    LET tolerance == BASELINE_TOLERANCE_MIN * MS_MIN
    IN  \E i \in 1..Len(suppressed) :
            /\ suppressed[i].type = type
            /\ Abs(suppressed[i].ts - timestamp) < tolerance

isSuppressedAuto(suppressed, type, timestamp) ==
    LET tolerance == BASELINE_TOLERANCE_MIN * MS_MIN
    IN  \E i \in 1..Len(suppressed) :
            /\ suppressed[i].type = type
            /\ Abs(suppressed[i].ts - timestamp) <= tolerance

\* an entry of the suppression list
Entry(type, ts) == [ type |-> type, ts |-> ts ]

\* every event counted as a core event
isCoreEventAny(event) == TRUE

isCoreEvent(event) == event.type # "RoutineStarted"

\* one pass of the while loop of buildBaselineEvents, then the rest of the walk
RECURSIVE BaselineWalk(_, _, _, _)
BaselineWalk(wakeStart, cycle, horizonUtc, events) ==
    IF ~(wakeStart < horizonUtc /\ cycle < maxCycles) THEN events
    ELSE
        LET feedTime == wakeStart + defaultConfig.feedIntervalMinMin * MS_MIN
            withFeed == IF feedTime <= horizonUtc
                        THEN Append(events, AutoEvent("auto-feed", "MilkGiven", feedTime))
                        ELSE events
            napStart == wakeStart + defaultConfig.minWakeWindowMin * MS_MIN
            napEnd   == napStart + defaultConfig.expectedNapDurationMin * MS_MIN
        IN  IF napStart <= horizonUtc
            THEN LET withStart == Append(withFeed,
                                         AutoEvent("auto-nap-start", "NapStarted", napStart))
                 IN  IF napEnd <= horizonUtc
                     THEN BaselineWalk(napEnd, cycle + 1, horizonUtc,
                              Append(withStart, AutoEvent("auto-nap-end", "NapEnded", napEnd)))
                     ELSE withStart
            ELSE withFeed

\* the walk with its cycle counter started one below zero
buildBaselineEventsOneMore(firstWakeUtc, horizonUtc) ==
    BaselineWalk(firstWakeUtc, -1, horizonUtc, << >>)

buildBaselineEvents(firstWakeUtc, horizonUtc) ==
    BaselineWalk(firstWakeUtc, 0, horizonUtc, << >>)

\* the forEach over the baseline candidates: suppressed or matched ones are skipped
RECURSIVE MergeBaseline(_, _, _)
MergeBaseline(merged, candidates, suppressed) ==
    IF candidates = << >> THEN merged
    ELSE
        LET candidate == Head(candidates)
            skip == \/ isSuppressedAuto(suppressed, candidate.type, candidate.ts)
                    \/ hasMatchingEvent(merged, candidate.type, candidate.ts)
        IN  MergeBaseline(IF skip THEN merged ELSE Append(merged, candidate),
                          Tail(candidates), suppressed)

\* the horizon falling back to "now" whenever fewer than three real events exist
horizonNowIfFewerThanThree(withFirstAwake, now) ==
    LET realEvents == SelectSeq(withFirstAwake, LAMBDA e : ~e.auto /\ isCoreEvent(e))
        n == Len(realEvents)
    IN  IF n >= 3
        THEN CHOOSE m \in { realEvents[i].ts : i \in (n - 2)..n } :
                 \A i \in (n - 2)..n : realEvents[i].ts <= m
        ELSE now

\* the horizon being "now" whatever the log holds
horizonAlwaysNow(withFirstAwake, now) == now

\* the horizon of the baseline walk
horizonOf(withFirstAwake, now) ==
    LET realEvents == SelectSeq(withFirstAwake, LAMBDA e : ~e.auto /\ isCoreEvent(e))
        n == Len(realEvents)
        lastThreeReal == SubSeq(realEvents, Max(1, n - 2), n)
    IN  IF Len(lastThreeReal) # 0
        THEN CHOOSE m \in { lastThreeReal[i].ts : i \in 1..Len(lastThreeReal) } :
                 \A i \in 1..Len(lastThreeReal) : lastThreeReal[i].ts <= m
        ELSE now

\* no FirstAwake is dropped
keepAllFirstAwake(ordered) == ordered

\* a real FirstAwake shadows every auto-predicted one
dropShadowedFirstAwake(ordered) ==
    LET hasFirstAwake == Some(ordered, LAMBDA e : e.type = "FirstAwake" /\ ~e.auto)
    IN  SelectSeq(ordered,
                  LAMBDA e : ~(e.type = "FirstAwake" /\ e.auto /\ hasFirstAwake))

\* the sorted log without shadowed FirstAwake events, and with a predicted
\* FirstAwake at the day start when it holds none
withFirstAwakeOf(eventLog, now) ==
    LET ordered == SortByTs(eventLog)
        cleaned == dropShadowedFirstAwake(ordered)
        hasAnyFirstAwake == Some(cleaned, LAMBDA e : e.type = "FirstAwake")
    IN  IF hasAnyFirstAwake THEN cleaned
        ELSE Append(cleaned,
                    AutoEvent("auto-first-awake", "FirstAwake", getDayStartUtc(now)))

\* withFirstAwake.find: the first FirstAwake of the list
firstWakeOf(withFirstAwake) ==
    withFirstAwake[
        CHOOSE i \in 1..Len(withFirstAwake) :
            /\ withFirstAwake[i].type = "FirstAwake"
            /\ \A j \in 1..(i - 1) : withFirstAwake[j].type # "FirstAwake" ]

\* normalizeEventLog without the final sort
normalizeEventLogUnsorted(eventLog, now, suppressed) ==
    LET withFirstAwake == withFirstAwakeOf(eventLog, now)
        horizonUtc == horizonOf(withFirstAwake, now)
        firstWake == firstWakeOf(withFirstAwake)
        baselineEvents == buildBaselineEvents(firstWake.ts, horizonUtc)
    IN  MergeBaseline(withFirstAwake, baselineEvents, suppressed)

normalizeEventLog(eventLog, now, suppressed) ==
    LET withFirstAwake == withFirstAwakeOf(eventLog, now)
        horizonUtc == horizonOf(withFirstAwake, now)
        firstWake == firstWakeOf(withFirstAwake)
        baselineEvents == buildBaselineEvents(firstWake.ts, horizonUtc)
        merged == MergeBaseline(withFirstAwake, baselineEvents, suppressed)
    IN  SortByTs(merged)

-----------------------------------------------------------------------------
(* Core State Reducer *)

\* denominator of estimatedSleepPressure: awakeMin / 150 = awakeMs / (150 * MS_MIN)
PressureDen == 150 * MS_MIN

initialCoreState ==
    [ lastWakeTime           |-> Null,
      lastNapStart           |-> Null,
      lastNapEnd             |-> Null,
      lastNapDuration        |-> Null,
      lastFeedTime           |-> Null,
      timeSinceLastFeed      |-> Null,
      estimatedSleepPressure |-> 0,
      regulationLevel        |-> "medium",
      totalDaySleep          |-> 0 ]

initialAppState ==
    initialCoreState @@ [ eventLog |-> << >>, autoSuppressed |-> << >> ]

\* levelFromSignals with the high threshold excluded
levelFromSignalsStrict(sleepPressure, timeSinceFeedMs) ==
    IF \/ sleepPressure * 10 > 8 * PressureDen
       \/ (timeSinceFeedMs # Null /\ timeSinceFeedMs >= 180 * MS_MIN)
    THEN "high"
    ELSE IF /\ sleepPressure * 100 <= 35 * PressureDen
            /\ (IF timeSinceFeedMs # Null THEN timeSinceFeedMs ELSE 0) < 120 * MS_MIN
         THEN "low"
         ELSE "medium"

\* sleepPressure is a numerator over PressureDen; timeSinceFeedMs is
\* timeSinceFeedMin * MS_MIN, or Null
levelFromSignals(sleepPressure, timeSinceFeedMs) ==
    IF \/ sleepPressure * 10 >= 8 * PressureDen
       \/ (timeSinceFeedMs # Null /\ timeSinceFeedMs >= 180 * MS_MIN)
    THEN "high"
    ELSE IF /\ sleepPressure * 100 <= 35 * PressureDen
            /\ (IF timeSinceFeedMs # Null THEN timeSinceFeedMs ELSE 0) < 120 * MS_MIN
         THEN "low"
         ELSE "medium"

\* computeSleepPressure without the clamp at 1
computeSleepPressureUncapped(lastWakeTime, lastNapDurationMs, now) ==
    IF ~Truthy(lastWakeTime) THEN 0
    ELSE
        LET awakeMs == Max(0, now - lastWakeTime)
            napPenalty == IF lastNapDurationMs # Null /\ lastNapDurationMs < 45 * MS_MIN
                          THEN (15 * PressureDen) \div 100
                          ELSE 0
        IN  awakeMs + napPenalty

\* lastNapDurationMs is lastNapDurationMin * MS_MIN, or Null
computeSleepPressure(lastWakeTime, lastNapDurationMs, now) ==
    IF ~Truthy(lastWakeTime) THEN 0
    ELSE
        LET awakeMs == Max(0, now - lastWakeTime)
            napPenalty == IF lastNapDurationMs # Null /\ lastNapDurationMs < 45 * MS_MIN
                          THEN (15 * PressureDen) \div 100
                          ELSE 0
        IN  Min(PressureDen, awakeMs + napPenalty)

\* foldStep with no event skipped for being stamped after now
foldStepFutureToo(acc, event, now) ==
    LET timestamp == event.ts
    IN  IF timestamp = NaN THEN acc
        ELSE CASE event.type = "FirstAwake" ->
                    [ acc EXCEPT !.lastWakeTime = timestamp,
                                 !.lastNapStart = Null,
                                 !.lastNapEnd = Null,
                                 !.lastNapDuration = Null ]
               [] event.type = "NapStarted" ->
                    [ acc EXCEPT !.lastNapStart = timestamp ]
               [] event.type = "NapEnded" ->
                    IF Truthy(acc.lastNapStart)
                    THEN LET duration == Max(0, timestamp - acc.lastNapStart)
                         IN  [ acc EXCEPT !.lastNapEnd = timestamp,
                                          !.lastNapDuration = duration,
                                          !.totalDaySleep = @ + duration,
                                          !.lastWakeTime = timestamp ]
                    ELSE [ acc EXCEPT !.lastNapEnd = timestamp,
                                      !.lastWakeTime = timestamp ]
               [] event.type \in { "MilkGiven", "SolidsGiven" } ->
                    [ acc EXCEPT !.lastFeedTime = timestamp ]
               [] event.type = "Asleep" ->
                    [ acc EXCEPT !.lastNapStart = timestamp ]
               [] OTHER -> acc

\* the body of the for loop of recomputeCoreState; acc.totalDaySleep is the
\* local accumulator
foldStep(acc, event, now) ==
    LET timestamp == event.ts
    IN  IF timestamp = NaN \/ timestamp > now THEN acc
        ELSE CASE event.type = "FirstAwake" ->
                    [ acc EXCEPT !.lastWakeTime = timestamp,
                                 !.lastNapStart = Null,
                                 !.lastNapEnd = Null,
                                 !.lastNapDuration = Null ]
               [] event.type = "NapStarted" ->
                    [ acc EXCEPT !.lastNapStart = timestamp ]
               [] event.type = "NapEnded" ->
                    IF Truthy(acc.lastNapStart)
                    THEN LET duration == Max(0, timestamp - acc.lastNapStart)
                         IN  [ acc EXCEPT !.lastNapEnd = timestamp,
                                          !.lastNapDuration = duration,
                                          !.totalDaySleep = @ + duration,
                                          !.lastWakeTime = timestamp ]
                    ELSE [ acc EXCEPT !.lastNapEnd = timestamp,
                                      !.lastWakeTime = timestamp ]
               [] event.type \in { "MilkGiven", "SolidsGiven" } ->
                    [ acc EXCEPT !.lastFeedTime = timestamp ]
               [] event.type = "Asleep" ->
                    [ acc EXCEPT !.lastNapStart = timestamp ]
               [] OTHER -> acc

\* the fold that applies only the last event of the list
foldEventListLastOnly(acc, events, now) ==
    IF events = << >> THEN acc
    ELSE foldStep(acc, events[Len(events)], now)

RECURSIVE foldEventList(_, _, _)
foldEventList(acc, events, now) ==
    IF events = << >> THEN acc
    ELSE foldEventList(foldStep(acc, Head(events), now), Tail(events), now)

\* recomputeCoreState with the nap penalty decided from the day's sleep total
recomputeCoreStatePenaltyFromTotal(events, now) ==
    LET folded == foldEventList(initialCoreState, events, now)
        timeSinceLastFeed ==
            IF Truthy(folded.lastFeedTime) THEN Max(0, now - folded.lastFeedTime) ELSE Null
        lastNapDurationMs ==
            IF Truthy(folded.totalDaySleep) THEN folded.totalDaySleep ELSE Null
        pressure == computeSleepPressure(folded.lastWakeTime, lastNapDurationMs, now)
        timeSinceFeedMs ==
            IF Truthy(timeSinceLastFeed) THEN timeSinceLastFeed ELSE Null
    IN  [ folded EXCEPT !.timeSinceLastFeed = timeSinceLastFeed,
                        !.estimatedSleepPressure = pressure,
                        !.regulationLevel = levelFromSignals(pressure, timeSinceFeedMs) ]

recomputeCoreState(events, now) ==
    LET folded == foldEventList(initialCoreState, events, now)
        timeSinceLastFeed ==
            IF Truthy(folded.lastFeedTime) THEN Max(0, now - folded.lastFeedTime) ELSE Null
        lastNapDurationMs ==
            IF Truthy(folded.lastNapDuration) THEN folded.lastNapDuration ELSE Null
        pressure == computeSleepPressure(folded.lastWakeTime, lastNapDurationMs, now)
        timeSinceFeedMs ==
            IF Truthy(timeSinceLastFeed) THEN timeSinceLastFeed ELSE Null
    IN  [ folded EXCEPT !.timeSinceLastFeed = timeSinceLastFeed,
                        !.estimatedSleepPressure = pressure,
                        !.regulationLevel = levelFromSignals(pressure, timeSinceFeedMs) ]

-----------------------------------------------------------------------------
(* Pipeline entry points *)

applyEvent(st, event, now) ==
    LET eventLog == normalizeEventLog(Append(st.eventLog, event), now, st.autoSuppressed)
        core == recomputeCoreState(eventLog, now)
    IN  core @@ [ eventLog |-> eventLog, autoSuppressed |-> st.autoSuppressed ]

rebuildFromLog(eventLog, now, autoSuppressed) ==
    LET normalized == normalizeEventLog(eventLog, now, autoSuppressed)
        core == recomputeCoreState(normalized, now)
    IN  core @@ [ eventLog |-> normalized, autoSuppressed |-> autoSuppressed ]

buildEvent(type, timestamp, rnd) ==
    [ id |-> [ k |-> type, t |-> timestamp, r |-> rnd ],
      type |-> type, ts |-> timestamp, auto |-> FALSE ]

-----------------------------------------------------------------------------
(* Storage *)

\* The value under STORAGE_KEY is kept by its shape:
\*   raw               "missing" (getItem gives null), "empty" (the empty
\*                     string), "unparseable" (JSON.parse throws), "null" and
\*                     "number" (JSON that is no object), "object"
\*   eventLog.shape    "absent", "null", "notalist" (a string, a number or an
\*                     object), "list"
\*   eventLog.items    the entries of the list, each with its shape:
\*                     "record"    an event record bearing timestampUtc
\*                     "legacy"    a record bearing a numeric timestamp only
\*                     "undated"   a record bearing neither
\*                     "bare"      the object {}
\*                     "nonobject" null, a number or a string
\*   autoSuppressed    likewise; an item is a { type, timestampUtc } entry
\*                     (ok) or anything else
StoredList(shape, items) == [ shape |-> shape, items |-> items ]

Stored(raw, eventLog, autoSuppressed) ==
    [ raw |-> raw, eventLog |-> eventLog, autoSuppressed |-> autoSuppressed ]

NothingStored ==
    Stored("missing", StoredList("absent", << >>), StoredList("absent", << >>))

StoredEntry(shape, event) ==
    [ shape |-> shape, id |-> event.id, type |-> event.type, ts |-> event.ts,
      auto |-> event.auto ]

\* the id and type read from an object that has neither
UndefinedId == [ k |-> "undefined", t |-> 0, r |-> 0 ]

UndefinedType == "undefined"

\* the callback of (parsed.eventLog ?? []).map: `rnd` is the random suffix
loadEvent(entry, now, rnd) ==
    CASE entry.shape = "record" ->
             [ id |-> entry.id, type |-> entry.type, ts |-> entry.ts,
               auto |-> entry.auto ]
      [] entry.shape = "legacy" ->
             [ id |-> entry.id, type |-> entry.type, ts |-> entry.ts, auto |-> FALSE ]
      [] entry.shape = "undated" ->
             [ id |-> entry.id, type |-> entry.type, ts |-> now, auto |-> FALSE ]
      [] entry.shape = "bare" ->
             [ id |-> UndefinedId, type |-> UndefinedType, ts |-> now, auto |-> FALSE ]
      [] OTHER ->
             [ id |-> [ k |-> "legacy", t |-> now, r |-> rnd ],
               type |-> "FirstAwake", ts |-> now, auto |-> FALSE ]

\* a missing or empty value returns at `if (!raw)`; JSON.parse of unparseable
\* text, `parsed.eventLog` of null, and `.map` / `.filter` of a value that is
\* no list throw inside the try, and the catch returns initialAppState
loadState(value, now) ==
    IF value.raw \in { "missing", "empty", "unparseable", "null" }
    THEN initialAppState
    ELSE IF value.eventLog.shape = "notalist" \/ value.autoSuppressed.shape = "notalist"
         THEN initialAppState
         ELSE LET items == value.eventLog.items
                  eventLog == [ i \in 1..Len(items) |-> loadEvent(items[i], now, i) ]
                  kept == SelectSeq(value.autoSuppressed.items, LAMBDA e : e.ok)
                  autoSuppressed ==
                      [ i \in 1..Len(kept) |-> Entry(kept[i].type, kept[i].ts) ]
              IN  rebuildFromLog(eventLog, now, autoSuppressed)

-----------------------------------------------------------------------------
(* Constraint / Output Projector *)

\* null of a text field (a formatted string or null)
NullText == << >>

\* Math.round(ms / MS_MIN): the nearest whole minute, a half rounded up
minutesFromMs(ms) == (2 * ms + MS_MIN) \div (2 * MS_MIN)

addMinutes(time, minutes) == time + minutes * MS_MIN

\* the civil instant (hour, minute) of sourceUtc's civil day
dayBoundUtc(sourceUtc, hour, minute) ==
    LET parts == getZonedParts(sourceUtc)
    IN  getUtcMsFromZoned([ day |-> parts.day, hour |-> hour, minute |-> minute ])

\* Intl.DateTimeFormat with hour and minute only: the civil day is dropped
formatTime(utcMs) ==
    [ hour |-> getZonedParts(utcMs).hour, minute |-> getZonedParts(utcMs).minute ]

currentlyAsleep(st) ==
    /\ st.lastNapStart # Null
    /\ (st.lastNapEnd = Null \/ st.lastNapEnd < st.lastNapStart)

\* shortenOf comparing the duration in milliseconds with the threshold in minutes
shortenOfUnconverted(st, config) ==
    /\ Truthy(st.lastNapDuration)
    /\ st.lastNapDuration < config.shortNapThresholdMin

\* whether the short-nap rule shortens the next wake window
shortenOf(st, config) ==
    LET lastNapDurationMs ==
            IF Truthy(st.lastNapDuration) THEN st.lastNapDuration ELSE Null
    IN  /\ lastNapDurationMs # Null
        /\ lastNapDurationMs < config.shortNapThresholdMin * MS_MIN

\* lateNapOf with the late-nap hour itself excluded
lateNapOfAfterHour(st, config) ==
    /\ st.lastNapEnd # Null
    /\ getZonedParts(st.lastNapEnd).hour > config.lateNapHour

\* whether the last recorded nap end falls at or after the late-nap hour
lateNapOf(st, config) ==
    /\ st.lastNapEnd # Null
    /\ getZonedParts(st.lastNapEnd).hour >= config.lateNapHour

\* denominator of wakeUtilization: a multiple of both values maxWake can take
UtilDen(config) ==
    config.maxWakeWindowMin
        * (config.maxWakeWindowMin - config.shortenWakeByMinIfShortNap)

Expiring(label, expiresAt) == [ label |-> label, expiresAt |-> expiresAt ]

Because(label, reason) == [ label |-> label, reason |-> reason ]

Shift(delta, status) == [ delta |-> delta, status |-> status ]

\* the four lists after the splices of the currentlyAsleep branch
CategoriesAsleep ==
    [ windowAllowed      |-> << >>,
      windowSuppressed   |-> << >>,
      activityAllowed    |-> << >>,
      activitySuppressed |-> << >> ]

CategoriesLowStim(endWindow) ==
    [ windowAllowed      |-> << "Regulation / low stimulation", "Outdoor light",
                                "Routine reset" >>,
      windowSuppressed   |-> << "High stimulation", "New novel activities" >>,
      activityAllowed    |-> << Expiring("Low-stim movement", endWindow),
                                Expiring("Quiet bonding", endWindow),
                                Expiring("Feeding window prep", endWindow) >>,
      activitySuppressed |-> << Because("High stimulation", "wake window still early"),
                                Because("New novel activities", "wake window still early") >> ]

CategoriesModerate(endWindow) ==
    [ windowAllowed      |-> << "Regulation / low stimulation", "Outdoor light",
                                "Routine reset" >>,
      windowSuppressed   |-> << "High stimulation", "New novel activities" >>,
      activityAllowed    |-> << Expiring("Active play", endWindow),
                                Expiring("Outdoor light", endWindow),
                                Expiring("Routine reset", endWindow) >>,
      activitySuppressed |-> << Because("High stimulation", "wake window mid-cycle"),
                                Because("New novel activities", "wake window mid-cycle") >> ]

CategoriesWindDown(endWindow) ==
    [ windowAllowed      |-> << "Regulation / low stimulation", "Routine reset" >>,
      windowSuppressed   |-> << "High stimulation", "New novel activities",
                                "Outdoor light" >>,
      activityAllowed    |-> << Expiring("Wind-down", endWindow),
                                Expiring("Low-light calm", endWindow),
                                Expiring("Routine start", endWindow) >>,
      activitySuppressed |-> << Because("High stimulation", "wake window near cap"),
                                Because("New novel activities", "wake window near cap"),
                                Because("Outdoor light", "wake window near cap") >> ]

CategoriesMinimal(endWindow) ==
    [ windowAllowed      |-> << "Regulation / low stimulation" >>,
      windowSuppressed   |-> << "High stimulation", "New novel activities",
                                "Outdoor light" >>,
      activityAllowed    |-> << Expiring("Minimal stimulation", endWindow),
                                Expiring("Reduce novelty", endWindow),
                                Expiring("Bridge to sleep", endWindow) >>,
      activitySuppressed |-> << Because("High stimulation", "wake window exceeded"),
                                Because("New novel activities", "wake window exceeded"),
                                Because("Outdoor light", "wake window exceeded") >> ]

\* the labels of the no-wake state without the feed prompt
CategoriesNotCalibratedNoFeed ==
    [ windowAllowed      |-> << "Log first awake" >>,
      windowSuppressed   |-> << "High stimulation", "New novel activities" >>,
      activityAllowed    |-> << Expiring("Log first awake", Null),
                                Expiring("Start routine when ready", Null) >>,
      activitySuppressed |-> << Because("High stimulation", "system not yet calibrated"),
                                Because("New novel activities", "system not yet calibrated") >> ]

CategoriesNotCalibrated ==
    [ windowAllowed      |-> << "Log first awake" >>,
      windowSuppressed   |-> << "High stimulation", "New novel activities" >>,
      activityAllowed    |-> << Expiring("Log first awake", Null),
                                Expiring("Record a feed", Null),
                                Expiring("Start routine when ready", Null) >>,
      activitySuppressed |-> << Because("High stimulation", "system not yet calibrated"),
                                Because("New novel activities", "system not yet calibrated") >> ]

\* the tier chain with the override taken as soon as the cap is reached
categoriesOfOverrideAtCap(asleep, awakeMin, minWake, maxWake, endWindow) ==
    IF awakeMin >= maxWake THEN CategoriesMinimal(endWindow)
    ELSE IF asleep THEN CategoriesAsleep
    ELSE IF awakeMin * 10 < minWake * 6 THEN CategoriesLowStim(endWindow)
    ELSE IF awakeMin * 10 < maxWake * 9 THEN CategoriesModerate(endWindow)
    ELSE CategoriesWindDown(endWindow)

\* the tier chain with the wind-down labels before the low-stimulation ones
categoriesOfWindDownFirst(asleep, awakeMin, minWake, maxWake, endWindow) ==
    IF awakeMin > maxWake THEN CategoriesMinimal(endWindow)
    ELSE IF asleep THEN CategoriesAsleep
    ELSE IF awakeMin * 10 < minWake * 6 THEN CategoriesWindDown(endWindow)
    ELSE IF awakeMin * 10 < maxWake * 9 THEN CategoriesModerate(endWindow)
    ELSE CategoriesLowStim(endWindow)

\* the if / else-if chain on awakeMin, then the override of `awakeMin > maxWake`
\* (which follows the chain and so also runs after the currentlyAsleep branch);
\* awakeMin < minWake * 0.6 and awakeMin < maxWake * 0.9 are compared in tenths
categoriesOf(asleep, awakeMin, minWake, maxWake, endWindow) ==
    IF awakeMin > maxWake THEN CategoriesMinimal(endWindow)
    ELSE IF asleep THEN CategoriesAsleep
    ELSE IF awakeMin * 10 < minWake * 6 THEN CategoriesLowStim(endWindow)
    ELSE IF awakeMin * 10 < maxWake * 9 THEN CategoriesModerate(endWindow)
    ELSE CategoriesWindDown(endWindow)

\* the shiftPreview entries of a state with a wake time
shiftsOf(shorten, lateNap, config) ==
    << Shift([ rule |-> "Nap <N min -> next wake window -M min",
               n |-> config.shortNapThresholdMin,
               m |-> config.shortenWakeByMinIfShortNap ],
             IF shorten THEN "applied" ELSE "pending"),
       Shift([ rule |-> "Nap after N:00 -> bedtime cap -M min",
               n |-> config.lateNapHour,
               m |-> config.bedtimeEarlierByMinIfLateNap ],
             IF lateNap THEN "applied" ELSE "pending"),
       Shift([ rule |-> "Late nap detected -> next nap capped at N min",
               n |-> config.nextNapCapMinIfLateNap,
               m |-> 0 ],
             IF lateNap THEN "applied" ELSE "pending") >>

\* expectedWakeUtc
expectedWakeOf(st, config) ==
    IF currentlyAsleep(st) /\ Truthy(st.lastNapStart)
    THEN LET estimatedDuration ==
                 IF lateNapOf(st, config)
                 THEN Min(config.expectedNapDurationMin, config.nextNapCapMinIfLateNap)
                 ELSE config.expectedNapDurationMin
         IN  addMinutes(st.lastNapStart, estimatedDuration)
    ELSE Null

\* stateSummary: each line is its fixed text and the value put into it
summaryOf(st, now, expectedWakeUtc) ==
    LET sleepLines ==
            IF currentlyAsleep(st) /\ Truthy(st.lastNapStart)
            THEN << [ text |-> "Asleep for N min",
                      n |-> minutesFromMs(now - st.lastNapStart) ],
                    IF Truthy(expectedWakeUtc)
                    THEN [ text |-> "Expected wake T", t |-> formatTime(expectedWakeUtc) ]
                    ELSE [ text |-> "Expected wake -" ] >>
            ELSE IF Truthy(st.lastWakeTime)
            THEN << [ text |-> "Awake for N min",
                      n |-> minutesFromMs(now - st.lastWakeTime) ],
                    IF Truthy(st.lastNapDuration)
                    THEN [ text |-> "Last slept N min",
                           n |-> minutesFromMs(st.lastNapDuration) ]
                    ELSE [ text |-> "Last slept -" ] >>
            ELSE << [ text |-> "Awaiting first awake marker" ],
                    [ text |-> "Last slept -" ] >>
        feedLine ==
            IF Truthy(st.lastFeedTime)
            THEN [ text |-> "Last feed N min ago",
                   n |-> minutesFromMs(now - st.lastFeedTime) ]
            ELSE [ text |-> "No feed logged yet" ]
    IN  sleepLines \o << feedLine,
                         [ text |-> "Regulation level: L", l |-> st.regulationLevel ] >>

computeOutputs(st, now, config) ==
    LET asleep == currentlyAsleep(st)
        known == Truthy(st.lastWakeTime)
        shorten == shortenOf(st, config)
        minWake == config.minWakeWindowMin
                       - (IF shorten THEN config.shortenWakeByMinIfShortNap ELSE 0)
        maxWake == config.maxWakeWindowMin
                       - (IF shorten THEN config.shortenWakeByMinIfShortNap ELSE 0)
        startWindow == addMinutes(st.lastWakeTime, minWake)
        endWindow == addMinutes(st.lastWakeTime, maxWake)
        lateNap == lateNapOf(st, config)
        bedtimeCap == dayBoundUtc(now, config.bedtimeLatestHour, config.bedtimeLatestMinute)
        bedtimeLatest ==
            IF lateNap THEN addMinutes(bedtimeCap, -config.bedtimeEarlierByMinIfLateNap)
            ELSE bedtimeCap
        routineLatest ==
            addMinutes(bedtimeLatest, -(config.routineLatencyMin + config.setupLatencyMin))
        awakeMin == minutesFromMs(now - st.lastWakeTime)
        categories ==
            IF known THEN categoriesOf(asleep, awakeMin, minWake, maxWake, endWindow)
            ELSE CategoriesNotCalibrated
        expectedWakeUtc == expectedWakeOf(st, config)
        shown == known /\ ~asleep
    IN  [ stateSummary       |-> summaryOf(st, now, expectedWakeUtc),
          nextWindow         |-> IF shown
                                 THEN << formatTime(startWindow), formatTime(endWindow) >>
                                 ELSE NullText,
          nextHardStop       |-> IF shown
                                 THEN << formatTime(routineLatest), formatTime(bedtimeLatest) >>
                                 ELSE NullText,
          isAsleep           |-> asleep,
          nextWindowStartUtc |-> IF shown THEN startWindow ELSE Null,
          nextWindowEndUtc   |-> IF shown THEN endWindow ELSE Null,
          nextHardStopUtc    |-> IF shown THEN routineLatest ELSE Null,
          wakeWindowRemainingMin |->
              IF shown THEN Max(0, maxWake - awakeMin) ELSE Null,
          expectedWakeUtc    |-> expectedWakeUtc,
          activityCategories |-> [ allowed    |-> categories.activityAllowed,
                                   suppressed |-> categories.activitySuppressed ],
          windowCategories   |-> [ allowed    |-> categories.windowAllowed,
                                   suppressed |-> categories.windowSuppressed ],
          shiftPreview       |->
              IF known THEN shiftsOf(shorten, lateNap, config)
              ELSE << Shift([ rule |-> "First awake marker -> system window active",
                              n |-> 0, m |-> 0 ],
                            "pending") >>,
          pressureIndicator  |->
              [ wakeUtilization    |->
                    IF known
                    THEN Min(maxWake, Max(0, awakeMin)) * (UtilDen(config) \div maxWake)
                    ELSE Null,
                sleepPressureTrend |-> IF known /\ asleep THEN "down" ELSE "up",
                regulationRisk     |->
                    IF known
                    THEN IF st.regulationLevel = "low" THEN "low"
                         ELSE IF st.regulationLevel = "high" THEN "high"
                         ELSE "rising"
                    ELSE "rising" ] ]

-----------------------------------------------------------------------------
(* Bounds and input sets *)

\* longest raw event log fed to the pipeline
MaxRawLen == 3

\* longest event list fed to the reducer
MaxFoldLen == 3

\* an instant of day 1 of the reference calendar
T(hour, minute) == At(1, hour, minute)

NoEdit == [ k |-> "none", t |-> 0, r |-> 0 ]

\* the id prefix normalizeEventLog gives a synthesized event of a type
AutoKind(type) ==
    CASE type = "FirstAwake" -> "auto-first-awake"
      [] type = "MilkGiven" -> "auto-feed"
      [] type = "NapStarted" -> "auto-nap-start"
      [] type = "NapEnded" -> "auto-nap-end"

\* an event of a raw log: logged by the user, or synthesized by an earlier run
RawEvent(type, ts, auto, rnd) ==
    IF auto THEN AutoEvent(AutoKind(type), type, ts) ELSE buildEvent(type, ts, rnd)

\* the (type, time, autoPredicted) of the events a raw log is drawn from
RawEventKinds ==
    { << "FirstAwake", T(7, 0), FALSE >>,
      << "FirstAwake", T(8, 15), FALSE >>,
      << "NapStarted", T(8, 15), FALSE >>,
      << "NapEnded", T(8, 45), FALSE >>,
      << "MilkGiven", T(8, 45), FALSE >>,
      << "MilkGiven", T(9, 30), FALSE >>,
      << "SolidsGiven", T(8, 45), FALSE >>,
      << "RoutineStarted", T(9, 30), FALSE >>,
      << "Asleep", T(9, 30), FALSE >>,
      << "FirstAwake", T(7, 0), TRUE >>,
      << "FirstAwake", T(8, 15), TRUE >>,
      << "MilkGiven", T(9, 0), TRUE >>,
      << "NapStarted", T(8, 15), TRUE >>,
      << "NapEnded", T(9, 15), TRUE >> }

\* the suppression lists the pipeline is run with
PipeSuppressions ==
    { << >>,
      << Entry("MilkGiven", T(9, 0)) >>,
      << Entry("MilkGiven", T(8, 40)) >>,
      << Entry("MilkGiven", T(9, 21)) >>,
      << Entry("NapStarted", T(8, 15)) >>,
      << Entry("FirstAwake", T(7, 0)), Entry("MilkGiven", T(9, 20)) >> }

PipeNows == { T(8, 45), T(9, 30) }

FoldTimes == { T(7, 0), T(8, 0), T(8, 30), T(8, 45) }

\* the types of the events given an unparseable timestamp
UnparseableTypes == { "FirstAwake", "NapEnded", "MilkGiven" }

FoldNows == { T(8, 30), T(9, 0), T(10, 0), T(10, 6), T(11, 0) }

-----------------------------------------------------------------------------
(* Specification Pipe: rebuildFromLog applied to raw logs *)

SystemIdle ==
    /\ state = initialAppState
    /\ editId = NoEdit
    /\ effectPending = FALSE
    /\ idCounter = 0
    /\ userSuppressed = {}

PipeIdle ==
    /\ rawLog = << >>
    /\ rawSuppressed = << >>
    /\ piped = initialAppState

FoldIdle ==
    /\ foldEvents = << >>
    /\ foldCore = initialCoreState

\* no projection has been computed
NotProjected == [ stateSummary |-> << >> ]

ProjIdle == outputs = NotProjected

\* nothing is stored and nothing has been loaded
LoadIdle ==
    /\ stored = NothingStored
    /\ loaded = initialAppState

PipeInit ==
    /\ nowUtcMs \in PipeNows
    /\ feedIntervalMinMin \in FeedIntervalMinMinChoices
    /\ LoadIdle
    /\ rawSuppressed \in PipeSuppressions
    /\ rawLog = << >>
    /\ piped = rebuildFromLog(rawLog, nowUtcMs, rawSuppressed)
    /\ SystemIdle
    /\ FoldIdle
    /\ ProjIdle

PipeAppend ==
    /\ Len(rawLog) < MaxRawLen
    /\ \E kind \in RawEventKinds :
           rawLog' = Append(rawLog, RawEvent(kind[1], kind[2], kind[3], Len(rawLog) + 1))
    /\ piped' = rebuildFromLog(rawLog', nowUtcMs, rawSuppressed)
    /\ UNCHANGED << nowUtcMs, state, editId, effectPending, idCounter, userSuppressed,
                    feedIntervalMinMin, stored, loaded, rawSuppressed, foldEvents, foldCore, outputs >>

PipeNext == PipeAppend

Pipe == PipeInit /\ [][PipeNext]_vars

-----------------------------------------------------------------------------
(* Specification Fold: recomputeCoreState applied to time-ordered event lists, *)
(* some of whose timestamps may be unparseable                                *)

FoldInit ==
    /\ nowUtcMs \in FoldNows
    /\ feedIntervalMinMin \in FeedIntervalMinMinChoices
    /\ LoadIdle
    /\ foldEvents = << >>
    /\ foldCore = recomputeCoreState(foldEvents, nowUtcMs)
    /\ SystemIdle
    /\ PipeIdle
    /\ ProjIdle

FoldAppend ==
    /\ Len(foldEvents) < MaxFoldLen
    /\ \E type \in EventType, ts \in FoldTimes \cup { NaN } :
           /\ ts = NaN => type \in UnparseableTypes
           /\ ts # NaN =>
                  \A i \in 1..Len(foldEvents) :
                      foldEvents[i].ts # NaN => foldEvents[i].ts <= ts
           /\ foldEvents' = Append(foldEvents, buildEvent(type, ts, Len(foldEvents) + 1))
    /\ foldCore' = recomputeCoreState(foldEvents', nowUtcMs)
    /\ UNCHANGED << nowUtcMs, state, editId, effectPending, idCounter, userSuppressed,
                    feedIntervalMinMin, stored, loaded, rawLog, rawSuppressed, piped, outputs >>

FoldAdvance ==
    /\ \E later \in FoldNows :
           /\ later > nowUtcMs
           /\ nowUtcMs' = later
    /\ foldCore' = recomputeCoreState(foldEvents, nowUtcMs')
    /\ UNCHANGED << state, editId, effectPending, idCounter, userSuppressed,
                    feedIntervalMinMin, stored, loaded, rawLog, rawSuppressed, piped, foldEvents,
                    outputs >>

FoldNext == FoldAppend \/ FoldAdvance

Fold == FoldInit /\ [][FoldNext]_vars

-----------------------------------------------------------------------------
(* Specification Proj: computeOutputs applied to the reducer's CoreState *)

\* longest event list reduced and projected
MaxProjLen == 3

\* the event types projected: RoutineStarted (no case of the fold) and
\* SolidsGiven (the case of MilkGiven) give no further CoreState
ProjTypes == EventType \ { "RoutineStarted", "SolidsGiven" }

\* a late nap end of the day before, a morning, and the two sides of 16:00
ProjTimes == { At(0, 16, 0), T(7, 0), T(15, 59), T(16, 0) }

\* one minute before 16:00, and 30, 44, 44.5, 116 and 130 minutes after it
ProjNows ==
    { T(15, 59), T(16, 30), T(16, 44), T(16, 44) + 30 * 1000, T(17, 56), T(18, 10) }

ProjInit ==
    /\ nowUtcMs \in ProjNows
    /\ feedIntervalMinMin \in FeedIntervalMinMinChoices
    /\ LoadIdle
    /\ foldEvents = << >>
    /\ foldCore = recomputeCoreState(foldEvents, nowUtcMs)
    /\ outputs = computeOutputs(foldCore, nowUtcMs, defaultConfig)
    /\ SystemIdle
    /\ PipeIdle

ProjAppend ==
    /\ Len(foldEvents) < MaxProjLen
    /\ \E type \in ProjTypes, ts \in ProjTimes :
           /\ foldEvents # << >> => foldEvents[Len(foldEvents)].ts <= ts
           /\ foldEvents' = Append(foldEvents, buildEvent(type, ts, Len(foldEvents) + 1))
    /\ foldCore' = recomputeCoreState(foldEvents', nowUtcMs)
    /\ outputs' = computeOutputs(foldCore', nowUtcMs, defaultConfig)
    /\ UNCHANGED << nowUtcMs, state, editId, effectPending, idCounter, userSuppressed,
                    feedIntervalMinMin, stored, loaded, rawLog, rawSuppressed, piped >>

ProjAdvance ==
    /\ \E later \in ProjNows :
           /\ later > nowUtcMs
           /\ nowUtcMs' = later
    /\ foldCore' = recomputeCoreState(foldEvents, nowUtcMs')
    /\ outputs' = computeOutputs(foldCore', nowUtcMs', defaultConfig)
    /\ UNCHANGED << state, editId, effectPending, idCounter, userSuppressed,
                    feedIntervalMinMin, stored, loaded, rawLog, rawSuppressed, piped, foldEvents >>

ProjNext == ProjAppend \/ ProjAdvance

Proj == ProjInit /\ [][ProjNext]_vars

-----------------------------------------------------------------------------
(* Specification Load: loadState applied to stored values *)

\* most entries of a stored eventLog
MaxStoredLen == 3

\* most items of a stored autoSuppressed
MaxStoredSuppressed == 1

LoadNows == { T(8, 45), T(9, 30) }

\* the stored values before any entry is written to their lists
StoredShapes ==
    { Stored(raw, StoredList("absent", << >>), StoredList("absent", << >>)) :
          raw \in { "missing", "empty", "unparseable", "null", "number" } }
    \cup
    { Stored("object", StoredList(a, << >>), StoredList(b, << >>)) :
          a \in { "absent", "null", "notalist", "list" },
          b \in { "absent", "notalist", "list" } }

NoRecord == [ id |-> UndefinedId, type |-> UndefinedType, ts |-> 0, auto |-> FALSE ]

\* the entries a stored eventLog is drawn from
StoredEntries ==
    { StoredEntry("record", buildEvent("FirstAwake", T(7, 0), 1)),
      StoredEntry("record", buildEvent("NapStarted", T(8, 15), 2)),
      StoredEntry("record", AutoEvent("auto-feed", "MilkGiven", T(9, 0))),
      StoredEntry("legacy", buildEvent("NapEnded", T(8, 45), 3)),
      StoredEntry("undated", buildEvent("MilkGiven", 0, 4)),
      StoredEntry("bare", NoRecord),
      StoredEntry("nonobject", NoRecord) }

\* the items a stored autoSuppressed is drawn from
StoredSuppressions ==
    { [ ok |-> TRUE, type |-> "MilkGiven", ts |-> T(9, 0) ],
      [ ok |-> FALSE, type |-> UndefinedType, ts |-> 0 ] }

LoadInit ==
    /\ nowUtcMs \in LoadNows
    /\ feedIntervalMinMin \in FeedIntervalMinMinChoices
    /\ stored \in StoredShapes
    /\ loaded = loadState(stored, nowUtcMs)
    /\ SystemIdle
    /\ PipeIdle
    /\ FoldIdle
    /\ ProjIdle

LoadStoreEvent ==
    /\ stored.raw = "object"
    /\ stored.eventLog.shape = "list"
    /\ Len(stored.eventLog.items) < MaxStoredLen
    /\ \E entry \in StoredEntries :
           stored' = [ stored EXCEPT !.eventLog.items = Append(@, entry) ]
    /\ loaded' = loadState(stored', nowUtcMs)
    /\ UNCHANGED << nowUtcMs, state, editId, effectPending, idCounter, userSuppressed,
                    feedIntervalMinMin, rawLog, rawSuppressed, piped, foldEvents,
                    foldCore, outputs >>

LoadStoreSuppression ==
    /\ stored.raw = "object"
    /\ stored.autoSuppressed.shape = "list"
    /\ Len(stored.autoSuppressed.items) < MaxStoredSuppressed
    /\ \E item \in StoredSuppressions :
           stored' = [ stored EXCEPT !.autoSuppressed.items = Append(@, item) ]
    /\ loaded' = loadState(stored', nowUtcMs)
    /\ UNCHANGED << nowUtcMs, state, editId, effectPending, idCounter, userSuppressed,
                    feedIntervalMinMin, rawLog, rawSuppressed, piped, foldEvents,
                    foldCore, outputs >>

LoadNext == LoadStoreEvent \/ LoadStoreSuppression

Load == LoadInit /\ [][LoadNext]_vars

-----------------------------------------------------------------------------
(* Specification Walk: rebuildFromLog over a whole day *)

\* most real events logged during the day
MaxWalkLen == 1

\* most advances of now, each of WalkStepMs, from 07:00 on
MaxWalkSteps == 26

WalkStepMs == 45 * MS_MIN

WalkTypes == { "FirstAwake", "MilkGiven", "NapEnded" }

WalkInit ==
    /\ nowUtcMs = T(7, 0)
    /\ feedIntervalMinMin \in FeedIntervalMinMinChoices
    /\ rawLog = << >>
    /\ rawSuppressed = << >>
    /\ piped = rebuildFromLog(rawLog, nowUtcMs, rawSuppressed)
    /\ SystemIdle
    /\ FoldIdle
    /\ ProjIdle
    /\ LoadIdle

WalkAdvance ==
    /\ nowUtcMs + WalkStepMs <= T(7, 0) + MaxWalkSteps * WalkStepMs
    /\ nowUtcMs' = nowUtcMs + WalkStepMs
    /\ piped' = rebuildFromLog(rawLog, nowUtcMs', rawSuppressed)
    /\ UNCHANGED << state, editId, effectPending, idCounter, userSuppressed,
                    feedIntervalMinMin, rawLog, rawSuppressed, foldEvents, foldCore,
                    outputs, stored, loaded >>

WalkLog ==
    /\ Len(rawLog) < MaxWalkLen
    /\ \E type \in WalkTypes :
           rawLog' = Append(rawLog, buildEvent(type, nowUtcMs, Len(rawLog) + 1))
    /\ piped' = rebuildFromLog(rawLog', nowUtcMs, rawSuppressed)
    /\ UNCHANGED << nowUtcMs, state, editId, effectPending, idCounter, userSuppressed,
                    feedIntervalMinMin, rawSuppressed, foldEvents, foldCore, outputs,
                    stored, loaded >>

WalkNext == WalkAdvance \/ WalkLog

Walk == WalkInit /\ [][WalkNext]_vars

-----------------------------------------------------------------------------
(* Specification Spec: the App component, from mount on empty storage *)

\* most mutations (append, committed edit, delete) the user makes
MaxOps == 2

\* most clock ticks
MaxTicks == 3

\* Date.now() when the component mounts
InitialNow == T(7, 0)

\* time between two clock ticks that the model follows
TickStepMs == 45 * MS_MIN

\* the instants a timestamp edit moves an event to
EditTimes == { T(7, 30), T(9, 0) }

EventIds(log) == { log[i].id : i \in 1..Len(log) }

\* Array.prototype.find by id: the first event with the id, if any
HasId(log, id) == \E i \in 1..Len(log) : log[i].id = id

FindById(log, id) ==
    log[CHOOSE i \in 1..Len(log) :
            /\ log[i].id = id
            /\ \A j \in 1..(i - 1) : log[j].id # id]

\* loadState with nothing stored, then the first render: the [nowUtcMs]
\* effect is scheduled on mount
Init ==
    /\ nowUtcMs = InitialNow
    /\ feedIntervalMinMin \in FeedIntervalMinMinChoices
    /\ LoadIdle
    /\ state = initialAppState
    /\ editId = NoEdit
    /\ effectPending = TRUE
    /\ idCounter = 0
    /\ userSuppressed = {}
    /\ PipeIdle
    /\ FoldIdle
    /\ ProjIdle

Untouched ==
    << feedIntervalMinMin, stored, loaded, rawLog, rawSuppressed, piped, foldEvents, foldCore, outputs >>

\* the interval timer (or the visibility / focus handler): setNowUtcMs(Date.now())
Tick ==
    /\ ~effectPending
    /\ nowUtcMs + TickStepMs <= InitialNow + MaxTicks * TickStepMs
    /\ nowUtcMs' = nowUtcMs + TickStepMs
    /\ effectPending' = TRUE
    /\ UNCHANGED << state, editId, idCounter, userSuppressed, Untouched >>

\* useEffect(() => setState((prev) => rebuildFromLog(prev.eventLog, nowUtcMs)), [nowUtcMs]):
\* the third argument is left to its default, the empty list
RebuildEffect ==
    /\ effectPending
    /\ state' = rebuildFromLog(state.eventLog, nowUtcMs, << >>)
    /\ effectPending' = FALSE
    /\ UNCHANGED << nowUtcMs, editId, idCounter, userSuppressed, Untouched >>

addEvent(selectedEvent) ==
    /\ ~effectPending
    /\ idCounter < MaxOps
    /\ LET event == buildEvent(selectedEvent, nowUtcMs, idCounter + 1)
       IN  state' = applyEvent(state, event, nowUtcMs)
    /\ idCounter' = idCounter + 1
    /\ UNCHANGED << nowUtcMs, editId, effectPending, userSuppressed, Untouched >>

startEdit(eventId) ==
    /\ ~effectPending
    /\ editId # eventId
    /\ editId' = eventId
    /\ UNCHANGED << nowUtcMs, state, effectPending, idCounter, userSuppressed, Untouched >>

\* the suppression list emptied by an edit or a delete
SuppressedAfterEmptied(prev, id) == << >>

\* the suppression list after an edit or a delete of the event `id`
SuppressedAfter(prev, id) ==
    IF HasId(prev.eventLog, id) /\ FindById(prev.eventLog, id).auto
    THEN Append(prev.autoSuppressed,
                Entry(FindById(prev.eventLog, id).type, FindById(prev.eventLog, id).ts))
    ELSE prev.autoSuppressed

\* history of the user's edits and deletes of auto-predicted events
NoteSuppressed(prev, id) ==
    IF HasId(prev.eventLog, id) /\ FindById(prev.eventLog, id).auto
    THEN userSuppressed \cup
             { Entry(FindById(prev.eventLog, id).type, FindById(prev.eventLog, id).ts) }
    ELSE userSuppressed

\* the updater commitEdit passes to setState, applied to the state `prev`
commitEditUpdater(prev, id, newTimestampUtc, now) ==
    LET eventLog == [ i \in 1..Len(prev.eventLog) |->
                        IF prev.eventLog[i].id = id
                        THEN [ prev.eventLog[i] EXCEPT !.ts = newTimestampUtc,
                                                       !.auto = FALSE ]
                        ELSE prev.eventLog[i] ]
    IN  rebuildFromLog(SortByTs(eventLog), now, SuppressedAfter(prev, id))

\* the updater deleteEvent passes to setState, applied to the state `prev`
deleteEventUpdater(prev, eventId, now) ==
    LET eventLog == SelectSeq(prev.eventLog, LAMBDA e : e.id # eventId)
    IN  rebuildFromLog(eventLog, now, SuppressedAfter(prev, eventId))

commitEdit(newTimestampUtc) ==
    /\ ~effectPending
    /\ editId # NoEdit
    /\ idCounter < MaxOps
    /\ state' = commitEditUpdater(state, editId, newTimestampUtc, nowUtcMs)
    /\ userSuppressed' = NoteSuppressed(state, editId)
    /\ editId' = NoEdit
    /\ idCounter' = idCounter + 1
    /\ UNCHANGED << nowUtcMs, effectPending, Untouched >>

clearAll ==
    /\ ~effectPending
    /\ state # initialAppState
    /\ state' = initialAppState
    /\ userSuppressed' = {}
    /\ UNCHANGED << nowUtcMs, editId, effectPending, idCounter, Untouched >>

deleteEvent(eventId) ==
    /\ ~effectPending
    /\ idCounter < MaxOps
    /\ state' = deleteEventUpdater(state, eventId, nowUtcMs)
    /\ userSuppressed' = NoteSuppressed(state, eventId)
    /\ idCounter' = idCounter + 1
    /\ UNCHANGED << nowUtcMs, editId, effectPending, Untouched >>

Next ==
    \/ Tick
    \/ RebuildEffect
    \/ \E selectedEvent \in EventType : addEvent(selectedEvent)
    \/ \E eventId \in EventIds(state.eventLog) : startEdit(eventId)
    \/ \E newTimestampUtc \in EditTimes : commitEdit(newTimestampUtc)
    \/ clearAll
    \/ \E eventId \in EventIds(state.eventLog) : deleteEvent(eventId)

Spec == Init /\ [][Next]_vars

\* the CoreState fields of an AppState
CoreOf(st) == [ f \in DOMAIN initialCoreState |-> st[f] ]

\* the OutputModel a render computes from the state and the now it holds
RenderedOutputs == computeOutputs(state, nowUtcMs, defaultConfig)

-----------------------------------------------------------------------------
(* Claims about the Normalizer and the pipeline (specification Pipe) *)

ToleranceMs == BASELINE_TOLERANCE_MIN * MS_MIN

InLog(e, log) == \E i \in 1..Len(log) : log[i] = e

\* the events a run of the Normalizer added to its input
AddedBy(out, in) == { out[i] : i \in { j \in 1..Len(out) : ~InLog(out[j], in) } }

\* C1: suppression honored by the Normalizer. For every suppression entry
\* (MilkGiven, T) of the list the Normalizer is run with, the events it adds
\* to its input hold no auto-predicted MilkGiven within 20 minutes of T.
C1_SuppressionHonored ==
    \A i \in 1..Len(rawSuppressed) :
        rawSuppressed[i].type = "MilkGiven" =>
            \A e \in AddedBy(piped.eventLog, rawLog) :
                ~(/\ e.type = "MilkGiven"
                  /\ e.auto
                  /\ Abs(e.ts - rawSuppressed[i].ts) <= ToleranceMs)

\* C1 witness: the baseline does propose a MilkGiven within 20 minutes of a
\* suppressed (MilkGiven, T) (it is added when the list is empty), and the
\* run with the list has left it out.
C1_Witness ==
    \E i \in 1..Len(rawSuppressed) :
        /\ rawSuppressed[i].type = "MilkGiven"
        /\ \E e \in AddedBy(normalizeEventLog(rawLog, nowUtcMs, << >>), rawLog) :
               /\ e.type = "MilkGiven"
               /\ e.auto
               /\ Abs(e.ts - rawSuppressed[i].ts) <= ToleranceMs
               /\ ~InLog(e, piped.eventLog)

\* C4: idempotence under fixed now. Normalizing the Normalizer's output again,
\* at the same now and with the same suppression list, returns it unchanged
\* (same events, same order).
C4_Idempotent ==
    normalizeEventLog(piped.eventLog, nowUtcMs, rawSuppressed) = piped.eventLog

\* C4 witness: the first run changed its input (it reordered it and added
\* synthesized events), and still the second run changes nothing.
C4_Witness ==
    /\ Len(rawLog) >= 2
    /\ rawLog # SortByTs(rawLog)
    /\ Cardinality(AddedBy(piped.eventLog, rawLog)) >= 2
    /\ normalizeEventLog(piped.eventLog, nowUtcMs, rawSuppressed) = piped.eventLog

IsRealFirstAwake(e) == e.type = "FirstAwake" /\ ~e.auto

IsAutoFirstAwake(e) == e.type = "FirstAwake" /\ e.auto

\* C5: single FirstAwake precedence. Whenever the input log holds a real
\* FirstAwake, the Normalizer's output holds no auto-predicted FirstAwake.
C5_RealFirstAwakeWins ==
    Some(rawLog, IsRealFirstAwake) => ~Some(piped.eventLog, IsAutoFirstAwake)

\* C5 witness: the input holds both a real and an auto-predicted FirstAwake,
\* and the output keeps the real one only.
C5_Witness ==
    /\ Some(rawLog, IsRealFirstAwake)
    /\ Some(rawLog, IsAutoFirstAwake)
    /\ Some(piped.eventLog, IsRealFirstAwake)
    /\ ~Some(piped.eventLog, IsAutoFirstAwake)

C9_Scenario ==
    /\ rawLog = << buildEvent("FirstAwake", T(7, 0), 1) >>
    /\ rawSuppressed = << >>
    /\ nowUtcMs = T(7, 0) + 150 * MS_MIN

\* C9: a log holding only a real FirstAwake at 07:00, an empty suppression
\* list and now = 07:00 + 150 min give estimatedSleepPressure = 1 (clamped)
\* and regulationLevel = high.
C9_FirstAwakeOnly ==
    C9_Scenario =>
        /\ piped.estimatedSleepPressure = PressureDen
        /\ piped.regulationLevel = "high"

\* C9 witness: the scenario's inputs have been run through the pipeline.
C9_Witness ==
    /\ C9_Scenario
    /\ piped.eventLog = rawLog
    /\ piped.lastWakeTime = T(7, 0)
    /\ piped.estimatedSleepPressure = PressureDen

C10_Scenario ==
    rawLog = << buildEvent("FirstAwake", T(7, 0), 1),
                buildEvent("NapStarted", T(8, 15), 2),
                buildEvent("NapEnded", T(8, 45), 3) >>

\* C10 as stated: after FirstAwake 07:00, NapStarted 08:15, NapEnded 08:45 the
\* next wake window's lower bound is 09:30.
C10_LowerBoundIs0930 ==
    C10_Scenario =>
        computeOutputs(piped, nowUtcMs, defaultConfig).nextWindowStartUtc = T(9, 30)

\* C10 amended: after FirstAwake 07:00, NapStarted 08:15, NapEnded 08:45 (a
\* 30 minute nap) the next wake window's lower bound is 08:45 + (75 - 15)
\* minutes, which is 09:45.
C10_LowerBoundIs0945 ==
    C10_Scenario =>
        /\ computeOutputs(piped, nowUtcMs, defaultConfig).nextWindowStartUtc
               = addMinutes(T(8, 45), 75 - 15)
        /\ computeOutputs(piped, nowUtcMs, defaultConfig).nextWindowStartUtc = T(9, 45)

\* C10 witness: the scenario's log has been reduced: the nap lasted 30
\* minutes and the infant has been awake since 08:45.
C10_Witness ==
    /\ C10_Scenario
    /\ piped.lastWakeTime = T(8, 45)
    /\ piped.lastNapDuration = 30 * MS_MIN
    /\ ~computeOutputs(piped, nowUtcMs, defaultConfig).isAsleep

-----------------------------------------------------------------------------
(* Claims about the App's event store (specification Spec) *)

HasEntry(list, entry) == \E i \in 1..Len(list) : list[i] = entry

\* C2: the suppression list grows monotonically. Across every append, edit,
\* delete and clock-tick rebuild (every step but a reset by clearAll), each
\* entry of state.autoSuppressed is still in the list afterwards.
C2_SuppressionMonotonic ==
    [][ state' # initialAppState =>
            \A i \in 1..Len(state.autoSuppressed) :
                HasEntry(state'.autoSuppressed, state.autoSuppressed[i]) ]_vars

\* C3: no re-synthesis. Once the user has deleted or edited an auto-predicted
\* event of type X at time T, no later state holds an auto-predicted event of
\* type X within 20 minutes of T.
C3_NeverResynthesized ==
    \A entry \in userSuppressed :
        \A i \in 1..Len(state.eventLog) :
            ~(/\ state.eventLog[i].auto
              /\ state.eventLog[i].type = entry.type
              /\ Abs(state.eventLog[i].ts - entry.ts) <= ToleranceMs)

\* C3 for the baseline events only (every type but FirstAwake), and only
\* until the next clock tick: while the entry is still in the list
C3_HonoredWhileListed ==
    \A j \in 1..Len(state.autoSuppressed) :
        state.autoSuppressed[j].type # "FirstAwake" =>
            \A i \in 1..Len(state.eventLog) :
                ~(/\ state.eventLog[i].auto
                  /\ state.eventLog[i].type = state.autoSuppressed[j].type
                  /\ Abs(state.eventLog[i].ts - state.autoSuppressed[j].ts) <= ToleranceMs)

\* a deleted or edited baseline event (any type but FirstAwake) is back in
\* the log: reached after the next clock tick has emptied the list
C3_BaselineResynthesized ==
    \E entry \in userSuppressed :
        /\ entry.type # "FirstAwake"
        /\ \E i \in 1..Len(state.eventLog) :
               /\ state.eventLog[i].auto
               /\ state.eventLog[i].type = entry.type
               /\ Abs(state.eventLog[i].ts - entry.ts) <= ToleranceMs

\* C5 in the App: the event log never holds both a real and an
\* auto-predicted FirstAwake
C5_NeverBothInApp ==
    ~(Some(state.eventLog, IsRealFirstAwake) /\ Some(state.eventLog, IsAutoFirstAwake))

-----------------------------------------------------------------------------
(* Claims about the Reducer (specification Fold) *)

AllAtOrBefore(events, now) == \A i \in 1..Len(events) : events[i].ts <= now

\* C6: pressure monotonic in awake time. For a fixed event list whose events
\* all lie at or before now, with the infant awake, the pressure at any later
\* now is at least the pressure at now; and the pressure never exceeds 1.
C6_PressureMonotonic ==
    /\ foldCore.estimatedSleepPressure <= PressureDen
    /\ (AllAtOrBefore(foldEvents, nowUtcMs) /\ ~currentlyAsleep(foldCore)) =>
           \A later \in FoldNows :
               later >= nowUtcMs =>
                   /\ foldCore.estimatedSleepPressure
                          <= recomputeCoreState(foldEvents, later).estimatedSleepPressure
                   /\ recomputeCoreState(foldEvents, later).estimatedSleepPressure
                          <= PressureDen

\* C6 witness: an awake infant whose pressure is positive and below 1 now,
\* higher at one later now and clamped at 1 at another.
C6_Witness ==
    /\ AllAtOrBefore(foldEvents, nowUtcMs)
    /\ ~currentlyAsleep(foldCore)
    /\ foldCore.lastWakeTime # Null
    /\ 0 < foldCore.estimatedSleepPressure
    /\ \E later \in FoldNows :
           LET p == recomputeCoreState(foldEvents, later).estimatedSleepPressure
           IN  foldCore.estimatedSleepPressure < p /\ p < PressureDen
    /\ \E later \in FoldNows :
           /\ later - foldCore.lastWakeTime > PressureDen
           /\ recomputeCoreState(foldEvents, later).estimatedSleepPressure = PressureDen

PressureAtLeast08(core) == core.estimatedSleepPressure * 10 >= 8 * PressureDen

FeedAtLeast(core, minutes) ==
    core.timeSinceLastFeed # Null /\ core.timeSinceLastFeed >= minutes * MS_MIN

TierHigh(core) == PressureAtLeast08(core) \/ FeedAtLeast(core, 180)

TierLow(core) ==
    /\ ~TierHigh(core)
    /\ core.estimatedSleepPressure * 100 <= 35 * PressureDen
    /\ (core.timeSinceLastFeed = Null \/ core.timeSinceLastFeed < 120 * MS_MIN)

\* C7: regulation tier rule. regulationLevel is high iff pressure >= 0.8 or
\* time-since-feed >= 180 min; low iff it is not high, pressure <= 0.35 and
\* time-since-feed is null or < 120 min; medium otherwise. Pressure 0.79 with
\* no feed is not high; pressure 0.8 is high whatever the feed timing.
C7_RegulationTier ==
    /\ (foldCore.regulationLevel = "high") <=> TierHigh(foldCore)
    /\ (foldCore.regulationLevel = "low") <=> TierLow(foldCore)
    /\ (foldCore.regulationLevel = "medium") <=> (~TierHigh(foldCore) /\ ~TierLow(foldCore))
    /\ (foldCore.estimatedSleepPressure * 100 = 79 * PressureDen
            /\ foldCore.timeSinceLastFeed = Null) => foldCore.regulationLevel # "high"
    /\ foldCore.estimatedSleepPressure * 10 = 8 * PressureDen
           => foldCore.regulationLevel = "high"

\* C7 witness: pressure exactly 0.8 with a feed 15 minutes ago is high.
C7_Witness ==
    /\ foldCore.estimatedSleepPressure * 10 = 8 * PressureDen
    /\ foldCore.timeSinceLastFeed = 15 * MS_MIN
    /\ foldCore.regulationLevel = "high"

\* pressure exactly 0.79 with no feed data is reached, and is medium
C7_Below08Reached ==
    /\ foldCore.estimatedSleepPressure * 100 = 79 * PressureDen
    /\ foldCore.timeSinceLastFeed = Null
    /\ foldCore.regulationLevel = "medium"

\* the nap penalty of the sleep-pressure formula, as a numerator over PressureDen
NapPenaltyUnder45(core) ==
    IF core.lastNapDuration # Null /\ core.lastNapDuration < 45 * MS_MIN
    THEN (15 * PressureDen) \div 100
    ELSE 0

\* C8: sleep-pressure formula. estimatedSleepPressure is 0 when lastWakeTime is
\* unset, and otherwise min(1, awakeMinutes / 150 + napPenalty), napPenalty
\* being 0.15 whenever the most recent nap's recorded duration is under 45
\* minutes (0 included) and 0 otherwise.
C8_PressureFormula ==
    foldCore.estimatedSleepPressure =
        IF foldCore.lastWakeTime = Null THEN 0
        ELSE Min(PressureDen,
                 Max(0, nowUtcMs - foldCore.lastWakeTime) + NapPenaltyUnder45(foldCore))

\* the formula of C8 holds wherever the recorded duration is not 0
C8_PressureFormulaNonZeroNap ==
    foldCore.lastNapDuration # 0 => C8_PressureFormula

-----------------------------------------------------------------------------
(* Claims about the Projector (specification Proj) *)

\* the infant is awake and the last wake time is known
AwakeKnown == foldCore.lastWakeTime # Null /\ ~outputs.isAsleep

\* the most recent nap's recorded duration is below the short-nap threshold
\* (a recorded duration of 0 included)
RecordedShortNap ==
    /\ foldCore.lastNapDuration # Null
    /\ foldCore.lastNapDuration < defaultConfig.shortNapThresholdMin * MS_MIN

\* the wake window [lastWake + minWake - by, lastWake + maxWake - by] is reported
WindowReducedBy(by) ==
    /\ outputs.nextWindowStartUtc
           = foldCore.lastWakeTime + (defaultConfig.minWakeWindowMin - by) * MS_MIN
    /\ outputs.nextWindowEndUtc
           = foldCore.lastWakeTime + (defaultConfig.maxWakeWindowMin - by) * MS_MIN

\* C11: wake window. Whenever lastWakeTime is known and the infant is awake,
\* the window is [lastWake + minWake, lastWake + maxWake], both bounds reduced
\* by shortenWakeByMinIfShortNap exactly when the most recent nap's recorded
\* duration is below shortNapThresholdMin (0 counts as below); with no
\* recorded nap the bounds are not reduced.
C11_WakeWindow ==
    AwakeKnown =>
        IF RecordedShortNap
        THEN WindowReducedBy(defaultConfig.shortenWakeByMinIfShortNap)
        ELSE WindowReducedBy(0)

\* the window rule of C11 holds wherever the recorded duration is not 0
C11_WakeWindowNonZeroNap ==
    foldCore.lastNapDuration # 0 => C11_WakeWindow

\* a nap of recorded duration 0 leaves the window as it is
C11_ZeroNapNotReduced ==
    /\ AwakeKnown
    /\ foldCore.lastNapDuration = 0
    /\ WindowReducedBy(0)

\* the civil hour of an instant, from the instant alone
CivilHour(utcMs) == (utcMs % (24 * 60 * MS_MIN)) \div (60 * MS_MIN)

\* the instant hour:minute of the civil day of utcMs
SameDayAt(utcMs, hour, minute) ==
    utcMs - (utcMs % (24 * 60 * MS_MIN)) + (hour * 60 + minute) * MS_MIN

\* the last nap ended at a civil hour at or after lateNapHour
LastNapEndedLate ==
    foldCore.lastNapEnd # Null /\ CivilHour(foldCore.lastNapEnd) >= defaultConfig.lateNapHour

\* C12: hard stop. While awake with a known wake time, nextHardStopUtc is the
\* bedtime cap (bedtimeLatestHour:bedtimeLatestMinute on the civil day of now),
\* minus bedtimeEarlierByMinIfLateNap if and only if the last nap ended at a
\* civil hour >= lateNapHour, minus routineLatencyMin + setupLatencyMin. With
\* the defaults a nap ending at 16:00 gives cap 19:30 and hard stop 18:55, and
\* a day with no late nap end gives cap 20:00 and hard stop 19:25.
C12_HardStop ==
    AwakeKnown =>
        LET cap == SameDayAt(nowUtcMs, defaultConfig.bedtimeLatestHour,
                             defaultConfig.bedtimeLatestMinute)
                       - (IF LastNapEndedLate
                          THEN defaultConfig.bedtimeEarlierByMinIfLateNap * MS_MIN
                          ELSE 0)
        IN  /\ outputs.nextHardStopUtc
                   = cap - (defaultConfig.routineLatencyMin
                                + defaultConfig.setupLatencyMin) * MS_MIN
            /\ foldCore.lastNapEnd = T(16, 0) =>
                   /\ outputs.nextHardStopUtc = T(18, 55)
                   /\ outputs.nextHardStop
                          = << [ hour |-> 18, minute |-> 55 ], [ hour |-> 19, minute |-> 30 ] >>
            /\ ~LastNapEndedLate =>
                   /\ outputs.nextHardStopUtc = T(19, 25)
                   /\ outputs.nextHardStop
                          = << [ hour |-> 19, minute |-> 25 ], [ hour |-> 20, minute |-> 0 ] >>

\* C12 witness: awake after a nap that ended at 16:00 today, hard stop 18:55.
C12_Witness ==
    /\ AwakeKnown
    /\ foldCore.lastNapEnd = T(16, 0)
    /\ foldCore.lastWakeTime = T(16, 0)
    /\ outputs.nextHardStopUtc = T(18, 55)

\* the other cases of C12: a nap end in the hour of lateNapHour itself, a nap
\* end of the day before (the cap stays on the day of now), and no late nap
C12_NapEndInLateHour ==
    AwakeKnown /\ foldCore.lastNapEnd = T(15, 59) /\ outputs.nextHardStopUtc = T(18, 55)

C12_LateNapOfDayBefore ==
    AwakeKnown /\ foldCore.lastNapEnd = At(0, 16, 0) /\ outputs.nextHardStopUtc = T(18, 55)

C12_NoLateNap ==
    AwakeKnown /\ foldCore.lastNapEnd = T(7, 0) /\ outputs.nextHardStopUtc = T(19, 25)

\* the status a shift entry has when its triggering condition is `holds`
StatusWhen(holds) == IF holds THEN "applied" ELSE "pending"

\* C13: shift-rule diagnostics. Whenever a wake time is known, shiftPreview
\* holds one entry per rule (short-nap shortening, late-nap bedtime
\* pull-forward, late-nap next-nap cap), each 'applied' exactly when its
\* triggering condition holds and 'pending' otherwise; a nap ending at 16:00
\* with lateNapHour 15 makes the late-nap bedtime-cap entry 'applied'.
C13_ShiftPreview ==
    foldCore.lastWakeTime # Null =>
        /\ Len(outputs.shiftPreview) = 3
        /\ outputs.shiftPreview[1].delta.rule = "Nap <N min -> next wake window -M min"
        /\ outputs.shiftPreview[1].status = StatusWhen(RecordedShortNap)
        /\ outputs.shiftPreview[2].delta.rule = "Nap after N:00 -> bedtime cap -M min"
        /\ outputs.shiftPreview[2].status = StatusWhen(LastNapEndedLate)
        /\ outputs.shiftPreview[3].delta.rule = "Late nap detected -> next nap capped at N min"
        /\ outputs.shiftPreview[3].status = StatusWhen(LastNapEndedLate)
        /\ foldCore.lastNapEnd = T(16, 0) => outputs.shiftPreview[2].status = "applied"

\* the diagnostics of C13 hold wherever the recorded duration is not 0
C13_ShiftPreviewNonZeroNap ==
    foldCore.lastNapDuration # 0 => C13_ShiftPreview

\* the scenario of C13: a nap ending at 16:00 makes both late-nap entries 'applied'
C13_LateNapApplied ==
    /\ foldCore.lastWakeTime # Null
    /\ foldCore.lastNapEnd = T(16, 0)
    /\ outputs.shiftPreview[2].status = "applied"
    /\ outputs.shiftPreview[3].status = "applied"

\* the i-th event of the list is at or before now, so the fold processes it
Processed(i) == foldEvents[i].ts <= nowUtcMs

IsSleepStart(event) == event.type \in { "NapStarted", "Asleep" }

IsSleepEnd(event) == event.type \in { "NapEnded", "FirstAwake" }

\* the last processed NapStarted / Asleep has no later processed NapEnded or
\* FirstAwake
LastSleepStartOpen ==
    \E i \in 1..Len(foldEvents) :
        /\ Processed(i)
        /\ IsSleepStart(foldEvents[i])
        /\ \A j \in (i + 1)..Len(foldEvents) :
               Processed(j) => ~IsSleepStart(foldEvents[j]) /\ ~IsSleepEnd(foldEvents[j])

\* C14: currently-asleep detection. isAsleep is true iff lastNapStart is
\* recorded and (lastNapEnd is not recorded or lastNapEnd < lastNapStart); so
\* after the fold of a time-ordered log, isAsleep holds exactly when the last
\* processed NapStarted / Asleep has no later processed NapEnded or FirstAwake.
C14_AsleepDetection ==
    /\ outputs.isAsleep <=>
           /\ foldCore.lastNapStart # Null
           /\ (foldCore.lastNapEnd = Null \/ foldCore.lastNapEnd < foldCore.lastNapStart)
    /\ outputs.isAsleep <=> LastSleepStartOpen

\* a processed NapEnded is followed, at the same instant, by a processed sleep start
EndAndStartTied ==
    \E i \in 1..Len(foldEvents) :
        \E j \in (i + 1)..Len(foldEvents) :
            /\ Processed(j)
            /\ foldEvents[i].type = "NapEnded"
            /\ IsSleepStart(foldEvents[j])
            /\ foldEvents[i].ts = foldEvents[j].ts

\* the detection of C14 holds for every log without such a tie
C14_AsleepDetectionNoTie ==
    ~EndAndStartTied => C14_AsleepDetection

\* a sleep start logged last, at the instant of the nap end before it, is not
\* reported as asleep
C14_TieReportedAwake ==
    /\ Len(foldEvents) >= 2
    /\ foldEvents[Len(foldEvents)].type = "NapStarted"
    /\ foldEvents[Len(foldEvents) - 1].type = "NapEnded"
    /\ Processed(Len(foldEvents))
    /\ ~outputs.isAsleep

\* the allowed and suppressed lists of both category groups are empty
CategoriesEmpty ==
    /\ outputs.activityCategories.allowed = << >>
    /\ outputs.activityCategories.suppressed = << >>
    /\ outputs.windowCategories.allowed = << >>
    /\ outputs.windowCategories.suppressed = << >>

WindowAndHardStopNull ==
    /\ outputs.nextWindow = NullText
    /\ outputs.nextWindowStartUtc = Null
    /\ outputs.nextWindowEndUtc = Null
    /\ outputs.nextHardStop = NullText
    /\ outputs.nextHardStopUtc = Null

\* C15: while asleep. For every CoreState with isAsleep true, whether or not
\* lastWakeTime is known, the allowed and suppressed lists of
\* activityCategories and windowCategories are empty, and nextWindow,
\* nextWindowStartUtc, nextWindowEndUtc, nextHardStop and nextHardStopUtc are
\* null.
C15_AsleepIsBlank ==
    outputs.isAsleep => CategoriesEmpty /\ WindowAndHardStopNull

\* while asleep the window and hard-stop fields are null
C15_AsleepFieldsNull ==
    outputs.isAsleep => WindowAndHardStopNull

\* while asleep with a known wake time at most the shortened max-wake ago,
\* the categories are empty
C15_AsleepWithinWindowEmpty ==
    (/\ outputs.isAsleep
     /\ foldCore.lastWakeTime # Null
     /\ minutesFromMs(nowUtcMs - foldCore.lastWakeTime)
            <= defaultConfig.maxWakeWindowMin - defaultConfig.shortenWakeByMinIfShortNap)
        => CategoriesEmpty

\* asleep with no known wake time: the 'not yet calibrated' labels are reported
C15_AsleepNotCalibrated ==
    /\ outputs.isAsleep
    /\ foldCore.lastWakeTime = Null
    /\ outputs.windowCategories.allowed = << "Log first awake" >>

\* asleep with a known wake time more than max-wake ago: the 'minimal
\* stimulation' labels are reported
C15_AsleepOverridden ==
    /\ outputs.isAsleep
    /\ foldCore.lastWakeTime # Null
    /\ outputs.windowCategories.allowed = << "Regulation / low stimulation" >>

\* elapsed-awake minutes: the time since the last wake in whole minutes, a
\* half minute rounded up
ElapsedAwakeMin == (nowUtcMs - foldCore.lastWakeTime + MS_MIN \div 2) \div MS_MIN

\* min-wake and max-wake of the reported wake window, in minutes
ReportedMinWake == (outputs.nextWindowStartUtc - foldCore.lastWakeTime) \div MS_MIN

ReportedMaxWake == (outputs.nextWindowEndUtc - foldCore.lastWakeTime) \div MS_MIN

\* the four lists reported are the label set `labels`
Reports(labels) ==
    /\ outputs.activityCategories.allowed = labels.activityAllowed
    /\ outputs.activityCategories.suppressed = labels.activitySuppressed
    /\ outputs.windowCategories.allowed = labels.windowAllowed
    /\ outputs.windowCategories.suppressed = labels.windowSuppressed

TierNames == { "low-stimulation", "moderate", "wind-down", "minimal-stimulation" }

TierLabels(tier) ==
    CASE tier = "low-stimulation" -> CategoriesLowStim(outputs.nextWindowEndUtc)
      [] tier = "moderate" -> CategoriesModerate(outputs.nextWindowEndUtc)
      [] tier = "wind-down" -> CategoriesWindDown(outputs.nextWindowEndUtc)
      [] tier = "minimal-stimulation" -> CategoriesMinimal(outputs.nextWindowEndUtc)

\* the tier the rule of C16 gives for `elapsed` minutes awake
TierFor(elapsed, minWake, maxWake) ==
    IF elapsed > maxWake THEN "minimal-stimulation"
    ELSE IF elapsed * 10 < minWake * 6 THEN "low-stimulation"
    ELSE IF elapsed * 10 < maxWake * 9 THEN "moderate"
    ELSE "wind-down"

\* C16: activity tier while awake. With elapsed the elapsed-awake minutes:
\* elapsed < 60% of min-wake gives the low-stimulation tier; otherwise
\* elapsed < 90% of max-wake gives the moderate/active tier; otherwise the
\* wind-down tier; and whenever elapsed > max-wake the minimal-stimulation
\* override replaces the tier chosen (elapsed equal to max-wake stays
\* wind-down). Exactly one of the four label sets is reported.
C16_ActivityTier ==
    AwakeKnown =>
        /\ Reports(TierLabels(TierFor(ElapsedAwakeMin, ReportedMinWake, ReportedMaxWake)))
        /\ Cardinality({ tier \in TierNames : Reports(TierLabels(tier)) }) = 1
        /\ ElapsedAwakeMin = ReportedMaxWake => Reports(TierLabels("wind-down"))

\* C16 witness: awake for exactly max-wake (130 minutes, no short nap), and
\* the wind-down tier is reported.
C16_Witness ==
    /\ AwakeKnown
    /\ nowUtcMs - foldCore.lastWakeTime = 130 * MS_MIN
    /\ ReportedMaxWake = 130
    /\ Reports(TierLabels("wind-down"))

\* the other cases of C16, each reached: the tiers on both sides of each
\* threshold, with and without the short-nap shortening
C16_LowAt44 ==
    AwakeKnown /\ ElapsedAwakeMin = 44 /\ ReportedMinWake = 75
        /\ Reports(TierLabels("low-stimulation"))

C16_ModerateAt45 ==
    AwakeKnown /\ nowUtcMs - foldCore.lastWakeTime = 45 * MS_MIN /\ ReportedMinWake = 75
        /\ Reports(TierLabels("moderate"))

C16_ModerateAt44AndHalf ==
    AwakeKnown /\ 2 * (nowUtcMs - foldCore.lastWakeTime) = 89 * MS_MIN
        /\ ReportedMinWake = 75 /\ Reports(TierLabels("moderate"))

C16_ModerateAt116 ==
    AwakeKnown /\ ElapsedAwakeMin = 116 /\ ReportedMaxWake = 130
        /\ Reports(TierLabels("moderate"))

C16_WindDownAt117 ==
    AwakeKnown /\ ElapsedAwakeMin = 117 /\ ReportedMaxWake = 130
        /\ Reports(TierLabels("wind-down"))

C16_MinimalAt131 ==
    AwakeKnown /\ ElapsedAwakeMin = 131 /\ ReportedMaxWake = 130
        /\ Reports(TierLabels("minimal-stimulation"))

C16_ShortenedLowAt30 ==
    AwakeKnown /\ ElapsedAwakeMin = 30 /\ ReportedMinWake = 60
        /\ Reports(TierLabels("low-stimulation"))

C16_ShortenedMinimalAt116 ==
    AwakeKnown /\ ElapsedAwakeMin = 116 /\ ReportedMaxWake = 115
        /\ Reports(TierLabels("minimal-stimulation"))

\* wakeUtilization is the fraction num / den (it is kept as a numerator over
\* UtilDen)
UtilizationIs(num, den) ==
    /\ outputs.pressureIndicator.wakeUtilization # Null
    /\ outputs.pressureIndicator.wakeUtilization * den = num * UtilDen(defaultConfig)

\* C17: wake-window utilization. pressureIndicator.wakeUtilization equals
\* clamp(elapsed-awake / max-wake, 0, 1) while awake with a known wake time,
\* and is null whenever the infant is asleep or no wake time is known.
C17_WakeUtilization ==
    /\ AwakeKnown =>
           UtilizationIs(Min(ReportedMaxWake, Max(0, ElapsedAwakeMin)), ReportedMaxWake)
    /\ (outputs.isAsleep \/ foldCore.lastWakeTime = Null) =>
           outputs.pressureIndicator.wakeUtilization = Null

\* the parts of C17 that hold: the value while awake, and null with no wake time
C17_UtilizationWhileAwake ==
    AwakeKnown =>
        UtilizationIs(Min(ReportedMaxWake, Max(0, ElapsedAwakeMin)), ReportedMaxWake)

C17_NullWithoutWake ==
    foldCore.lastWakeTime = Null => outputs.pressureIndicator.wakeUtilization = Null

\* asleep since a wake at 16:00, 30 minutes ago: the utilization reported is
\* 30 / 130, not null
C17_AsleepNotNull ==
    /\ outputs.isAsleep
    /\ foldCore.lastWakeTime = T(16, 0)
    /\ nowUtcMs = T(16, 30)
    /\ UtilizationIs(30, 130)

\* utilization strictly between 0 and 1, and clamped at 1, while awake
C17_AwakeFractionReached ==
    AwakeKnown /\ ElapsedAwakeMin = 44 /\ UtilizationIs(44, 130)

C17_AwakeClampedReached ==
    AwakeKnown /\ ElapsedAwakeMin > ReportedMaxWake /\ UtilizationIs(1, 1)

\* the risk tier that mirrors a regulation level
RiskMirroring(level) ==
    CASE level = "low" -> "low"
      [] level = "high" -> "high"
      [] level = "medium" -> "rising"

\* C18: pressure indicator categorical fields. For every CoreState, one with
\* no known wake time included, sleepPressureTrend is 'down' exactly when
\* isAsleep is true and 'up' otherwise, and regulationRisk mirrors
\* regulationLevel (low gives low, high gives high, medium gives rising).
C18_TrendAndRisk ==
    /\ outputs.pressureIndicator.sleepPressureTrend
           = (IF outputs.isAsleep THEN "down" ELSE "up")
    /\ outputs.pressureIndicator.regulationRisk = RiskMirroring(foldCore.regulationLevel)

\* the fields of C18 are as claimed whenever a wake time is known
C18_TrendAndRiskWithWake ==
    foldCore.lastWakeTime # Null => C18_TrendAndRisk

\* no wake time known: asleep with trend 'up', and level low with risk 'rising'
C18_AsleepTrendUp ==
    /\ foldCore.lastWakeTime = Null
    /\ outputs.isAsleep
    /\ outputs.pressureIndicator.sleepPressureTrend = "up"

C18_LowLevelRisingRisk ==
    /\ foldCore.lastWakeTime = Null
    /\ foldCore.regulationLevel = "low"
    /\ outputs.pressureIndicator.regulationRisk = "rising"

\* with a wake time known, each trend and each risk tier is reported
C18_DownReached ==
    foldCore.lastWakeTime # Null /\ outputs.pressureIndicator.sleepPressureTrend = "down"

C18_LowRiskReached ==
    foldCore.lastWakeTime # Null /\ outputs.pressureIndicator.regulationRisk = "low"

C18_HighRiskReached ==
    foldCore.lastWakeTime # Null /\ outputs.pressureIndicator.regulationRisk = "high"

C18_RisingRiskReached ==
    foldCore.lastWakeTime # Null /\ foldCore.regulationLevel = "medium"
        /\ outputs.pressureIndicator.regulationRisk = "rising"

\* the nap in progress started at a civil hour at or after lateNapHour
NapInProgressIsLate == CivilHour(foldCore.lastNapStart) >= defaultConfig.lateNapHour

\* C19: expected wake while asleep. expectedWakeUtc is lastNapStart +
\* expectedNapDurationMin, capped at lastNapStart + nextNapCapMinIfLateNap when
\* the nap in progress is itself a late nap (it started at or after
\* lateNapHour); expectedWakeUtc is non-null exactly when isAsleep is true.
C19_ExpectedWake ==
    /\ outputs.expectedWakeUtc # Null <=> outputs.isAsleep
    /\ outputs.isAsleep =>
           outputs.expectedWakeUtc
               = foldCore.lastNapStart
                     + (IF NapInProgressIsLate
                        THEN Min(defaultConfig.expectedNapDurationMin,
                                 defaultConfig.nextNapCapMinIfLateNap)
                        ELSE defaultConfig.expectedNapDurationMin) * MS_MIN

\* what holds instead: the cap applies when the nap end recorded before the
\* nap in progress was late
C19_CappedAfterLateNapEnd ==
    /\ outputs.expectedWakeUtc # Null <=> outputs.isAsleep
    /\ outputs.isAsleep =>
           outputs.expectedWakeUtc
               = foldCore.lastNapStart
                     + (IF LastNapEndedLate
                        THEN Min(defaultConfig.expectedNapDurationMin,
                                 defaultConfig.nextNapCapMinIfLateNap)
                        ELSE defaultConfig.expectedNapDurationMin) * MS_MIN

\* a nap started at 16:00 with no late nap end before it is expected to end
\* at 17:00
C19_LateNapNotCapped ==
    /\ outputs.isAsleep
    /\ foldCore.lastNapStart = T(16, 0)
    /\ ~LastNapEndedLate
    /\ outputs.expectedWakeUtc = T(17, 0)

\* a nap started at 07:00 after a late nap end of the day before is capped
C19_MorningNapCapped ==
    /\ outputs.isAsleep
    /\ foldCore.lastNapStart = T(7, 0)
    /\ outputs.expectedWakeUtc = T(7, 40)

-----------------------------------------------------------------------------
(* Claims about edit and delete in the App's event store (specification Spec) *)

\* the step appends exactly one entry, the target's type and timestamp before
\* the step, if the target was auto-predicted, and leaves the list as it is
\* otherwise
SuppressionRuleFor(target) ==
    state'.autoSuppressed =
        IF target.auto
        THEN Append(state.autoSuppressed, Entry(target.type, target.ts))
        ELSE state.autoSuppressed

\* after the step the target is in the log at the new instant, not
\* auto-predicted, with its id and type
EditedTo(target, newTimestampUtc) ==
    \E i \in 1..Len(state'.eventLog) :
        /\ state'.eventLog[i].id = target.id
        /\ state'.eventLog[i].ts = newTimestampUtc
        /\ state'.eventLog[i].auto = FALSE
        /\ state'.eventLog[i].type = target.type

\* the events of the log an edit or a delete by `id` acts on
TargetsOf(id) == { i \in 1..Len(state.eventLog) : state.eventLog[i].id = id }

\* C20: edit / delete suppression rule. A timestamp edit sets the target's
\* timestampUtc to the new instant and its autoPredicted flag to false,
\* keeping its id and type; edit and delete each append exactly one
\* suppression entry carrying the target's original type and original
\* timestamp if and only if the target was auto-predicted before the
\* operation, and leave the suppression list unchanged otherwise.
C20_EditDeleteRule ==
    [][ /\ \A newTimestampUtc \in EditTimes :
               commitEdit(newTimestampUtc) =>
                   \A i \in TargetsOf(editId) :
                       /\ EditedTo(state.eventLog[i], newTimestampUtc)
                       /\ SuppressionRuleFor(state.eventLog[i])
        /\ \A eventId \in EventIds(state.eventLog) :
               deleteEvent(eventId) =>
                   \A i \in TargetsOf(eventId) :
                       SuppressionRuleFor(state.eventLog[i]) ]_vars

\* the rule of C20 holds for every edit and delete whose id is carried by
\* one event only
C20_RuleForUniqueIds ==
    [][ /\ \A newTimestampUtc \in EditTimes :
               (commitEdit(newTimestampUtc) /\ Cardinality(TargetsOf(editId)) = 1) =>
                   \A i \in TargetsOf(editId) :
                       /\ EditedTo(state.eventLog[i], newTimestampUtc)
                       /\ SuppressionRuleFor(state.eventLog[i])
        /\ \A eventId \in EventIds(state.eventLog) :
               (deleteEvent(eventId) /\ Cardinality(TargetsOf(eventId)) = 1) =>
                   \A i \in TargetsOf(eventId) :
                       SuppressionRuleFor(state.eventLog[i]) ]_vars

\* a real and an auto-predicted event of the log carry the same id
C20_IdSharedByRealAndAuto ==
    \E i, j \in 1..Len(state.eventLog) :
        /\ state.eventLog[i].id = state.eventLog[j].id
        /\ state.eventLog[i].auto
        /\ ~state.eventLog[j].auto

\* an auto-predicted event has been edited: it is in the log under its id at
\* another instant, no longer auto-predicted, and the list holds its type and
\* the instant it was synthesized at
C20_AutoEdited ==
    \E i \in 1..Len(state.eventLog) :
        /\ state.eventLog[i].id.r = 0
        /\ state.eventLog[i].auto = FALSE
        /\ state.eventLog[i].ts # state.eventLog[i].id.t
        /\ HasEntry(state.autoSuppressed,
                    Entry(state.eventLog[i].type, state.eventLog[i].id.t))

\* a real event edited with the list left as it is; an auto-predicted event
\* deleted and recorded in the list
C20_RealEdited ==
    /\ state.autoSuppressed = << >>
    /\ ~effectPending
    /\ \E i \in 1..Len(state.eventLog) :
           /\ state.eventLog[i].id.r # 0
           /\ state.eventLog[i].ts # state.eventLog[i].id.t

C20_AutoDeleted ==
    /\ state.autoSuppressed # << >>
    /\ \E entry \in userSuppressed :
           /\ HasEntry(state.autoSuppressed, entry)
           /\ entry.type # "FirstAwake"
           /\ \A i \in 1..Len(state.eventLog) :
                  ~(state.eventLog[i].type = entry.type
                        /\ state.eventLog[i].id.t = entry.ts)

-----------------------------------------------------------------------------
(* Claims about the frame of the event log (specification Spec) *)

\* the event is in the log after the step as it was before it, or it is an
\* auto-predicted FirstAwake that a real FirstAwake of the new log shadows
KeptBy(e) ==
    \/ InLog(e, state'.eventLog)
    \/ (IsAutoFirstAwake(e) /\ Some(state'.eventLog, IsRealFirstAwake))

\* every event but the one at position `target` is kept (0: no target)
OthersKept(target) ==
    \A i \in (1..Len(state.eventLog)) \ { target } : KeptBy(state.eventLog[i])

\* every event the step brought into the log is auto-predicted, unless it is
\* one of `written` (the appended event, or the edited target)
OnlyAutoAdded(written) ==
    \A j \in 1..Len(state'.eventLog) :
        \/ InLog(state'.eventLog[j], state.eventLog)
        \/ state'.eventLog[j].auto
        \/ state'.eventLog[j] \in written

\* the position of the event the user edits or deletes by `id`: one of those
\* carrying the id, or 0 when there is none
TargetChoices(id) == IF TargetsOf(id) = {} THEN { 0 } ELSE TargetsOf(id)

EditedEvent(target, newTimestampUtc) ==
    IF target = 0 THEN {}
    ELSE { [ state.eventLog[target] EXCEPT !.ts = newTimestampUtc, !.auto = FALSE ] }

\* C21: frame of the event log. Across every append, edit, delete and
\* clock-tick rebuild every event other than the edit / delete target keeps
\* its id, type, timestampUtc and autoPredicted flag; no real event leaves the
\* log except by an explicit delete (or a reset); the Normalizer adds only
\* auto-predicted events and removes only auto-predicted FirstAwake events
\* shadowed by a real one.
C21_Frame ==
    [][ /\ RebuildEffect => (OthersKept(0) /\ OnlyAutoAdded({}))
        /\ \A selectedEvent \in EventType :
               addEvent(selectedEvent) =>
                   /\ OthersKept(0)
                   /\ OnlyAutoAdded({ buildEvent(selectedEvent, nowUtcMs, idCounter + 1) })
        /\ \A newTimestampUtc \in EditTimes :
               commitEdit(newTimestampUtc) =>
                   \E target \in TargetChoices(editId) :
                       /\ OthersKept(target)
                       /\ OnlyAutoAdded(EditedEvent(target, newTimestampUtc))
                       /\ \A e \in EditedEvent(target, newTimestampUtc) :
                              InLog(e, state'.eventLog)
        /\ \A eventId \in EventIds(state.eventLog) :
               deleteEvent(eventId) =>
                   \E target \in TargetChoices(eventId) :
                       /\ OthersKept(target)
                       /\ OnlyAutoAdded({}) ]_vars

\* the frame of C21 for every step but the edits and deletes whose id is
\* carried by more than one event
C21_FrameForUniqueIds ==
    [][ /\ RebuildEffect => (OthersKept(0) /\ OnlyAutoAdded({}))
        /\ \A selectedEvent \in EventType :
               addEvent(selectedEvent) =>
                   /\ OthersKept(0)
                   /\ OnlyAutoAdded({ buildEvent(selectedEvent, nowUtcMs, idCounter + 1) })
        /\ \A newTimestampUtc \in EditTimes :
               (commitEdit(newTimestampUtc) /\ Cardinality(TargetsOf(editId)) <= 1) =>
                   \E target \in TargetChoices(editId) :
                       /\ OthersKept(target)
                       /\ OnlyAutoAdded(EditedEvent(target, newTimestampUtc))
                       /\ \A e \in EditedEvent(target, newTimestampUtc) :
                              InLog(e, state'.eventLog)
        /\ \A eventId \in EventIds(state.eventLog) :
               (deleteEvent(eventId) /\ Cardinality(TargetsOf(eventId)) <= 1) =>
                   \E target \in TargetChoices(eventId) :
                       /\ OthersKept(target)
                       /\ OnlyAutoAdded({}) ]_vars

-----------------------------------------------------------------------------
(* Claims about edit and delete of an absent id (specifications Load, Spec) *)

\* ids an edit or a delete may be asked for: a logged event's, a synthesized
\* event's, and the id of no event at all
ProbeIds ==
    { buildEvent("MilkGiven", T(9, 30), 1).id,
      buildEvent("NapStarted", T(8, 15), 3).id,
      AutoEvent("auto-feed", "MilkGiven", T(9, 0)).id,
      AutoEvent("auto-first-awake", "FirstAwake", T(7, 0)).id,
      NoEdit }

AbsentProbeIds(st) == { id \in ProbeIds : ~HasId(st.eventLog, id) }

\* C22: edit or delete of an event id that is not in the log is a no-op. At
\* a fixed now, applied to a state the pipeline produced, the operation
\* returns the same event log, suppression list and CoreState (the updaters
\* read the missing target through `target?.`, so nothing is raised).
C22_AbsentIdNoOp ==
    loaded # initialAppState =>
        \A id \in AbsentProbeIds(loaded) :
            /\ deleteEventUpdater(loaded, id, nowUtcMs) = loaded
            /\ \A newTimestampUtc \in EditTimes :
                   commitEditUpdater(loaded, id, newTimestampUtc, nowUtcMs) = loaded

\* C22 witness: the state holds logged and synthesized events and a
\* suppression list that kept a candidate out; an id is absent, and the same
\* operations on an id that is present do change the state.
C22_Witness ==
    /\ loaded # initialAppState
    /\ AbsentProbeIds(loaded) # {}
    /\ Len(stored.eventLog.items) >= 2
    /\ Some(loaded.eventLog, LAMBDA e : e.auto)
    /\ loaded.autoSuppressed # << >>
    /\ rebuildFromLog(loaded.eventLog, nowUtcMs, << >>) # loaded
    /\ \E id \in EventIds(loaded.eventLog) :
           /\ deleteEventUpdater(loaded, id, nowUtcMs) # loaded
           /\ \E newTimestampUtc \in EditTimes :
                  commitEditUpdater(loaded, id, newTimestampUtc, nowUtcMs) # loaded

\* C22 in the App: committing an edit whose target is no longer in the log
\* leaves the state as it is (unless a reset has emptied it, which is not a
\* state of the pipeline)
C22_StaleEditInApp ==
    [][ \A newTimestampUtc \in EditTimes :
            ( /\ commitEdit(newTimestampUtc)
              /\ ~HasId(state.eventLog, editId)
              /\ state # initialAppState ) => state' = state ]_vars

\* an edit is open on an event that has been deleted since, and can be
\* committed
C22_StaleEditOpen ==
    /\ editId # NoEdit
    /\ ~HasId(state.eventLog, editId)
    /\ state # initialAppState
    /\ ~effectPending
    /\ idCounter < MaxOps

-----------------------------------------------------------------------------
(* Claims about renders and stored derived state (specification Spec) *)

\* C23: no partial state is observable. Every OutputModel that is rendered
\* is projected from a CoreState the Reducer produced at the now passed to
\* the Projector: the CoreState a render reads is the Reducer's result for
\* the rendered log at the rendered now, and so is the projection.
C23_NoPartialState ==
    /\ CoreOf(state) = recomputeCoreState(state.eventLog, nowUtcMs)
    /\ RenderedOutputs =
           computeOutputs(recomputeCoreState(state.eventLog, nowUtcMs),
                          nowUtcMs, defaultConfig)

\* once the rebuild effect has run, a state that came out of the pipeline is
\* rendered with the now it was reduced at
C23_ConsistentOnceRebuilt ==
    (~effectPending /\ state # initialAppState) => C23_NoPartialState

\* the render between a clock tick and its rebuild effect: the new now is
\* projected with the CoreState of the tick before, and the OutputModel
\* differs from the one the rebuild gives
C23_StaleRenderAfterTick ==
    /\ effectPending
    /\ state # initialAppState
    /\ CoreOf(state) # recomputeCoreState(state.eventLog, nowUtcMs)
    /\ RenderedOutputs #
           computeOutputs(rebuildFromLog(state.eventLog, nowUtcMs, << >>),
                          nowUtcMs, defaultConfig)

\* the state a step leaves is the pipeline's: its log is the Normalizer's
\* output and its CoreState the Reducer's, at the step's now
FromPipeline(st, now) ==
    /\ st.eventLog = normalizeEventLog(st.eventLog, now, st.autoSuppressed)
    /\ CoreOf(st) = recomputeCoreState(st.eventLog, now)

\* C24: all stored derived state is recomputed from the log. The state after
\* every operation that changes it (append, edit, delete, clock-tick rebuild,
\* reset) has the Normalizer's output as its event log and
\* recomputeCoreState(state.eventLog, now) as its CoreState fields, for the
\* operation's now.
C24_DerivedFromLog ==
    ~effectPending => FromPipeline(state, nowUtcMs)

\* C24 for every operation but the reset
C24_DerivedUnlessReset ==
    (~effectPending /\ state # initialAppState) => FromPipeline(state, nowUtcMs)

\* the state after clearAll: no event, and the regulationLevel of
\* initialCoreState where the Reducer gives another for the empty log
C24_ResetBypassesReducer ==
    /\ ~effectPending
    /\ state = initialAppState
    /\ state.regulationLevel # recomputeCoreState(state.eventLog, nowUtcMs).regulationLevel
    /\ normalizeEventLog(state.eventLog, nowUtcMs, state.autoSuppressed) # state.eventLog

-----------------------------------------------------------------------------
(* Claims about storage (specification Load) *)

\* the stored value is missing or unparseable, or its eventLog is no list or
\* holds an entry that is no event record
Malformed(value) ==
    \/ value.raw \in { "missing", "empty", "unparseable" }
    \/ /\ value.raw = "object"
       /\ \/ value.eventLog.shape = "notalist"
          \/ \E i \in 1..Len(value.eventLog.items) :
                 value.eventLog.items[i].shape \in { "bare", "nonobject" }

\* C25: a corrupt or absent persisted payload is treated as the empty
\* initial state. For every stored value that is missing, unparseable, or
\* whose eventLog is malformed (not a list, or holding entries that are not
\* event records) loadState returns initialAppState (empty event log, empty
\* suppression list); it never throws (every failure is caught).
C25_CorruptIsEmpty ==
    Malformed(stored) => loaded = initialAppState

\* C25 for the values that are missing, unparseable or hold no list
C25_EmptyUnlessListed ==
    ( \/ stored.raw \in { "missing", "empty", "unparseable", "null" }
      \/ stored.eventLog.shape = "notalist"
      \/ stored.autoSuppressed.shape = "notalist" ) => loaded = initialAppState

\* an entry that is no object has been loaded as a real FirstAwake at now
C25_NonObjectBecomesFirstAwake ==
    /\ stored.eventLog.shape = "list"
    /\ Len(stored.eventLog.items) = 1
    /\ stored.eventLog.items[1].shape = "nonobject"
    /\ \E i \in 1..Len(loaded.eventLog) :
           /\ loaded.eventLog[i].id.k = "legacy"
           /\ IsRealFirstAwake(loaded.eventLog[i])
           /\ loaded.eventLog[i].ts = nowUtcMs
    /\ loaded.lastWakeTime = nowUtcMs

\* the object {} has been loaded as an event without id and type, at now
C25_BareObjectKept ==
    /\ Len(stored.eventLog.items) = 1
    /\ stored.eventLog.items[1].shape = "bare"
    /\ \E i \in 1..Len(loaded.eventLog) :
           /\ loaded.eventLog[i].type = UndefinedType
           /\ loaded.eventLog[i].ts = nowUtcMs

\* legacy records are upgraded: the numeric timestamp, or now, is the instant
C25_LegacyUpgraded ==
    /\ Len(stored.eventLog.items) = 2
    /\ stored.eventLog.items[1].shape = "legacy"
    /\ stored.eventLog.items[2].shape = "undated"
    /\ \E i, j \in 1..Len(loaded.eventLog) :
           /\ loaded.eventLog[i].id = stored.eventLog.items[1].id
           /\ loaded.eventLog[i].ts = T(8, 45)
           /\ loaded.eventLog[j].id = stored.eventLog.items[2].id
           /\ loaded.eventLog[j].ts = nowUtcMs

-----------------------------------------------------------------------------
(* Claims about the horizon and the baseline walk (specification Pipe) *)

\* the timestamps of the real (non-auto, non-RoutineStarted) events of a log
RealCoreTimes(log) ==
    { log[i].ts : i \in { j \in 1..Len(log) : ~log[j].auto /\ isCoreEvent(log[j]) } }

RealCoreCount(log) ==
    Cardinality({ j \in 1..Len(log) : ~log[j].auto /\ isCoreEvent(log[j]) })

Latest(times) == CHOOSE m \in times : \A t \in times : t <= m

\* the horizon the Normalizer walks the baseline to, for the raw log
HorizonUsed == horizonOf(withFirstAwakeOf(rawLog, nowUtcMs), nowUtcMs)

\* C26 as stated: the horizon is the latest timestamp among the last three
\* real (non-auto, non-RoutineStarted) events when the log holds at least
\* three of them, and now when it holds fewer than three.
C26_HorizonNowIfFewerThanThree ==
    HorizonUsed =
        IF RealCoreCount(rawLog) >= 3 THEN Latest(RealCoreTimes(rawLog)) ELSE nowUtcMs

\* C26 amended: the horizon is the latest timestamp among the last (up to
\* three) real events when the log holds at least one of them, and now only
\* when it holds none; no event the Normalizer adds after the first-awake
\* lies beyond it.
C26_Horizon ==
    /\ HorizonUsed =
           IF RealCoreCount(rawLog) >= 1 THEN Latest(RealCoreTimes(rawLog)) ELSE nowUtcMs
    /\ \A e \in AddedBy(piped.eventLog, rawLog) :
           e.type # "FirstAwake" =>
               e.ts <= (IF RealCoreCount(rawLog) >= 1
                        THEN Latest(RealCoreTimes(rawLog)) ELSE nowUtcMs)

\* C26 witness: one or two real events, the latest of them before now; the
\* walk stops there, and leaves out an event a walk to now would add.
C26_Witness ==
    /\ RealCoreCount(rawLog) \in { 1, 2 }
    /\ Latest(RealCoreTimes(rawLog)) < nowUtcMs
    /\ HorizonUsed = Latest(RealCoreTimes(rawLog))
    /\ \E e \in AddedBy(SortByTs(MergeBaseline(
                                     withFirstAwakeOf(rawLog, nowUtcMs),
                                     buildBaselineEvents(T(7, 0), nowUtcMs),
                                     rawSuppressed)),
                        rawLog) :
           /\ e.ts > HorizonUsed
           /\ ~InLog(e, piped.eventLog)

\* three real events: the horizon is the latest of them
C26_ThreeRealEvents ==
    /\ RealCoreCount(rawLog) = 3
    /\ HorizonUsed = Latest(RealCoreTimes(rawLog))
    /\ HorizonUsed < nowUtcMs

\* no real event (RoutineStarted does not count): the horizon is now
C26_NoRealEvent ==
    /\ rawLog # << >>
    /\ RealCoreCount(rawLog) = 0
    /\ Some(rawLog, LAMBDA e : e.type = "RoutineStarted")
    /\ HorizonUsed = nowUtcMs

-----------------------------------------------------------------------------
(* Claims about the baseline walk (specification Walk) *)

\* the resolved first-awake instant of the raw log
FirstWakeUsed == firstWakeOf(withFirstAwakeOf(rawLog, nowUtcMs)).ts

\* the candidates the walk proposes for the raw log
Candidates == buildBaselineEvents(FirstWakeUsed, HorizonUsed)

CandidateSet == { Candidates[i] : i \in 1..Len(Candidates) }

\* length of one cycle: the wake window and the nap after it
CycleMs == (defaultConfig.minWakeWindowMin + defaultConfig.expectedNapDurationMin) * MS_MIN

\* the wake point of cycle k (counted from 0)
WakeOfCycle(k) == FirstWakeUsed + k * CycleMs

\* the walk of the claim from first wake w to a horizon, cycle by cycle
ProposedFrom(w, horizon) ==
    LET run == { k \in 0..7 : w + k * CycleMs < horizon }
    IN  { AutoEvent("auto-feed", "MilkGiven",
                    w + k * CycleMs + defaultConfig.feedIntervalMinMin * MS_MIN) : k \in run }
        \cup
        { AutoEvent("auto-nap-start", "NapStarted",
                    w + k * CycleMs + defaultConfig.minWakeWindowMin * MS_MIN) : k \in run }
        \cup
        { AutoEvent("auto-nap-end", "NapEnded",
                    w + k * CycleMs + defaultConfig.minWakeWindowMin * MS_MIN
                        + defaultConfig.expectedNapDurationMin * MS_MIN) : k \in run }

\* the candidates are the proposals of the claim up to the horizon, each
\* once and 24 at most, and every event added after the first-awake is one
WalkAsClaimed(candidates, w, horizon, added) ==
    LET candidateSet == { candidates[i] : i \in 1..Len(candidates) }
    IN  /\ candidateSet = { e \in ProposedFrom(w, horizon) : e.ts <= horizon }
        /\ Len(candidates) = Cardinality(candidateSet)
        /\ Len(candidates) <= 3 * 8
        /\ \A e \in candidateSet : e.ts <= horizon
        /\ \A e \in added :
               e.type # "FirstAwake" => (e \in candidateSet /\ e.ts <= horizon)

\* C27: baseline synthesis walk. Starting at the resolved first-awake
\* instant w, each cycle proposes a MilkGiven at w + feedIntervalMinMin, a
\* NapStarted at w + minWakeWindowMin and a NapEnded at that nap start +
\* expectedNapDurationMin, then repeats with w := the nap end; the walk runs
\* at most 8 cycles (at most 24 candidates) and no candidate lies beyond the
\* horizon.
C27_BaselineWalk ==
    WalkAsClaimed(Candidates, FirstWakeUsed, HorizonUsed,
                  AddedBy(piped.eventLog, rawLog))

\* C27 witness: the horizon lies beyond the ninth wake point; the walk has
\* stopped after eight cycles with 24 candidates, all of them in the log.
C27_Witness ==
    /\ WakeOfCycle(8) < HorizonUsed
    /\ Len(Candidates) = 24
    /\ \A e \in CandidateSet : InLog(e, piped.eventLog)
    /\ \A e \in CandidateSet : e.ts <= WakeOfCycle(8)

\* a walk cut by the horizon within a cycle: the nap start is proposed, the
\* feed and the nap end of the same cycle lie beyond the horizon and are not
C27_CutWithinCycle ==
    /\ Len(Candidates) = 4
    /\ Candidates[4].type = "NapStarted"
    /\ Candidates[4].ts = WakeOfCycle(1) + 75 * MS_MIN
    /\ WakeOfCycle(1) + 120 * MS_MIN > HorizonUsed

\* a walk from a logged first-awake, up to the latest real event
C27_FromLoggedFirstAwake ==
    /\ rawLog # << >>
    /\ FirstWakeUsed # T(7, 0)
    /\ HorizonUsed = FirstWakeUsed
    /\ nowUtcMs > HorizonUsed
    /\ Candidates = << >>

-----------------------------------------------------------------------------
(* Claims about duplicates in the normalized log (specifications Spec, Pipe) *)

\* two events of the same type within the tolerance of each other
Duplicates(a, b) == a.type = b.type /\ Abs(a.ts - b.ts) <= ToleranceMs

\* the log holds no pair of duplicates of which one is auto-predicted
DuplicateFree(log) ==
    \A i, j \in 1..Len(log) :
        (i # j /\ (log[i].auto \/ log[j].auto)) => ~Duplicates(log[i], log[j])

\* C28: duplicate-free output. After any sequence of append, edit, delete
\* and clock-tick operations the log holds no pair of events of the same
\* type within 20 minutes of each other of which at least one is
\* auto-predicted; an auto-predicted event never coexists with a real event
\* of its type within the tolerance.
C28_DuplicateFree == DuplicateFree(state.eventLog)

\* what the merge does guarantee: an event the Normalizer adds (other than
\* the FirstAwake) duplicates no other event of its output
C28_NoDuplicateAdded ==
    \A e \in AddedBy(piped.eventLog, rawLog) :
        e.type # "FirstAwake" =>
            \A i \in 1..Len(piped.eventLog) :
                piped.eventLog[i] # e => ~Duplicates(piped.eventLog[i], e)

\* an auto-predicted event synthesized by an earlier run is still in the log
\* next to a real event of its type logged within the tolerance
C28_StaleAutoBesideReal ==
    \E i, j \in 1..Len(state.eventLog) :
        /\ state.eventLog[i].auto
        /\ ~state.eventLog[j].auto
        /\ state.eventLog[j].id.r # 0
        /\ state.eventLog[j].ts = state.eventLog[j].id.t
        /\ state.eventLog[i].ts < state.eventLog[j].ts
        /\ Duplicates(state.eventLog[i], state.eventLog[j])

-----------------------------------------------------------------------------
(* Claims about the day-start FirstAwake (specification Walk) *)

IsFirstAwake(e) == e.type = "FirstAwake"

FirstAwakesOf(log) == { i \in 1..Len(log) : IsFirstAwake(log[i]) }

\* d is the most recent 07:00 (civil) at or before now
IsDayStartFor(d, now) ==
    /\ getZonedParts(d).hour = DAY_START_HOUR
    /\ getZonedParts(d).minute = 0
    /\ d % MS_MIN = 0
    /\ d <= now
    /\ now < d + DayMs

\* C29: day-start synthesis. When the log holds no FirstAwake of any kind
\* the Normalizer adds exactly one auto-predicted FirstAwake, stamped with
\* the most recent day-start boundary (07:00 civil) d at or before now, so
\* that d <= now < d + 24 h; when a FirstAwake is present it synthesizes none.
C29_DayStartFirstAwake ==
    IF FirstAwakesOf(rawLog) = {}
    THEN /\ Cardinality(FirstAwakesOf(piped.eventLog)) = 1
         /\ \A i \in FirstAwakesOf(piped.eventLog) :
                /\ piped.eventLog[i].auto
                /\ IsDayStartFor(piped.eventLog[i].ts, nowUtcMs)
    ELSE \A e \in AddedBy(piped.eventLog, rawLog) : ~IsFirstAwake(e)

\* C29 witness: past midnight and before 07:00, with a real event but no
\* FirstAwake in the log, the FirstAwake added is the 07:00 of the day before.
C29_Witness ==
    /\ getZonedParts(nowUtcMs).hour < DAY_START_HOUR
    /\ rawLog # << >>
    /\ FirstAwakesOf(rawLog) = {}
    /\ \E i \in FirstAwakesOf(piped.eventLog) :
           /\ piped.eventLog[i].auto
           /\ piped.eventLog[i].ts = T(7, 0)
           /\ getZonedParts(piped.eventLog[i].ts).day = getZonedParts(nowUtcMs).day - 1

\* a logged FirstAwake: the Normalizer adds none
C29_NoneWhenLogged ==
    /\ FirstAwakesOf(rawLog) # {}
    /\ Cardinality(FirstAwakesOf(piped.eventLog)) = 1
    /\ ~Some(piped.eventLog, IsAutoFirstAwake)
    /\ getZonedParts(nowUtcMs).hour < DAY_START_HOUR

-----------------------------------------------------------------------------
(* Claims about future events in the Reducer (specification Fold) *)

\* the events of the list whose timestamp is parseable and not after now
DueEvents(events, now) == SelectSeq(events, LAMBDA e : e.ts # NaN /\ e.ts <= now)

\* C30: future events are ignored by the Reducer. For every event list and
\* every now, recomputeCoreState(events, now) equals recomputeCoreState of
\* the sub-list of the events whose timestamp is parseable and <= now, in
\* the same order: an event stamped after now changes no CoreState field.
C30_FutureIgnored ==
    foldCore = recomputeCoreState(DueEvents(foldEvents, nowUtcMs), nowUtcMs)

\* C30 witness: the list holds an event that is due, one stamped after now
\* and one with an unparseable timestamp; the future event is a FirstAwake,
\* which changes the CoreState as soon as now has reached it.
C30_Witness ==
    /\ Len(foldEvents) = 3
    /\ Len(DueEvents(foldEvents, nowUtcMs)) = 1
    /\ \E i, j \in 1..Len(foldEvents) :
           /\ foldEvents[i].ts = NaN
           /\ foldEvents[j].ts # NaN
           /\ foldEvents[j].ts > nowUtcMs
           /\ foldEvents[j].type = "FirstAwake"
           /\ foldCore.lastWakeTime # foldEvents[j].ts
           /\ recomputeCoreState(foldEvents, foldEvents[j].ts).lastWakeTime
                  = foldEvents[j].ts
    /\ foldCore # recomputeCoreState(<< >>, nowUtcMs)

-----------------------------------------------------------------------------
(* Claims about the Reducer's transition table (specification Fold) *)

\* the last position of a list whose event has one of the types, 0 if none
LastOf(events, types) ==
    LET found == { i \in 1..Len(events) : events[i].type \in types }
    IN  IF found = {} THEN 0 ELSE CHOOSE i \in found : \A j \in found : j <= i

\* the sleep start in force after the events of a list: that of the last
\* NapStarted or Asleep, unless a FirstAwake has come after it
RefNapStart(events) ==
    LET i == LastOf(events, { "NapStarted", "Asleep", "FirstAwake" })
    IN  IF i = 0 \/ events[i].type = "FirstAwake" THEN Null ELSE events[i].ts

\* the positions of the NapEnded events that close a sleep start
RefClosing(events) ==
    { i \in 1..Len(events) :
          /\ events[i].type = "NapEnded"
          /\ RefNapStart(SubSeq(events, 1, i - 1)) # Null }

RefDuration(events, i) == Max(0, events[i].ts - RefNapStart(SubSeq(events, 1, i - 1)))

RECURSIVE RefSum(_, _)
RefSum(events, positions) ==
    IF positions = {} THEN 0
    ELSE LET i == CHOOSE p \in positions : TRUE
         IN  RefDuration(events, i) + RefSum(events, positions \ { i })

\* the table of the claim, field by field, for a list of processed events
RefFold(events) ==
    LET wake    == LastOf(events, { "FirstAwake", "NapEnded" })
        ended   == LastOf(events, { "FirstAwake", "NapEnded" })
        feed    == LastOf(events, { "MilkGiven", "SolidsGiven" })
        closing == RefClosing(events)
        reset   == LastOf(events, { "FirstAwake" })
        lastClosing == IF closing = {} THEN 0
                       ELSE CHOOSE i \in closing : \A j \in closing : j <= i
    IN  [ lastWakeTime    |-> IF wake = 0 THEN Null ELSE events[wake].ts,
          lastNapStart    |-> RefNapStart(events),
          lastNapEnd      |-> IF ended = 0 \/ events[ended].type = "FirstAwake"
                              THEN Null ELSE events[ended].ts,
          lastNapDuration |-> IF lastClosing = 0 \/ reset > lastClosing
                              THEN Null ELSE RefDuration(events, lastClosing),
          lastFeedTime    |-> IF feed = 0 THEN Null ELSE events[feed].ts,
          totalDaySleep   |-> RefSum(events, closing) ]

FoldedFields(core) ==
    [ lastWakeTime    |-> core.lastWakeTime,
      lastNapStart    |-> core.lastNapStart,
      lastNapEnd      |-> core.lastNapEnd,
      lastNapDuration |-> core.lastNapDuration,
      lastFeedTime    |-> core.lastFeedTime,
      totalDaySleep   |-> core.totalDaySleep ]

\* C31: Reducer transition table. Folding a time-ordered event sequence
\* gives the same CoreState as the reference fold: FirstAwake sets
\* lastWakeTime and clears lastNapStart, lastNapEnd and lastNapDuration;
\* NapStarted and Asleep set lastNapStart; NapEnded sets lastNapEnd and
\* lastWakeTime and, only if lastNapStart is set, sets lastNapDuration =
\* max(0, ts - lastNapStart) and adds it to totalDaySleep; MilkGiven and
\* SolidsGiven set lastFeedTime.
C31_TransitionTable ==
    FoldedFields(foldCore) = RefFold(DueEvents(foldEvents, nowUtcMs))

\* C31 witness: a nap started and ended, then a FirstAwake that clears the
\* nap fields while the day's sleep total stays
C31_Witness ==
    /\ Len(foldEvents) = 3
    /\ DueEvents(foldEvents, nowUtcMs) = foldEvents
    /\ foldEvents[1].type \in { "NapStarted", "Asleep" }
    /\ foldEvents[2].type = "NapEnded"
    /\ foldEvents[3].type = "FirstAwake"
    /\ foldCore.totalDaySleep = foldEvents[2].ts - foldEvents[1].ts
    /\ foldCore.totalDaySleep > 0
    /\ foldCore.lastNapStart = Null
    /\ foldCore.lastNapEnd = Null
    /\ foldCore.lastNapDuration = Null
    /\ foldCore.lastWakeTime = foldEvents[3].ts

\* a NapEnded with no sleep start before it: no duration, nothing added
C31_NapEndedAlone ==
    /\ Len(foldEvents) = 2
    /\ DueEvents(foldEvents, nowUtcMs) = foldEvents
    /\ foldEvents[1].type = "MilkGiven"
    /\ foldEvents[2].type = "NapEnded"
    /\ foldCore.lastNapEnd = foldEvents[2].ts
    /\ foldCore.lastWakeTime = foldEvents[2].ts
    /\ foldCore.lastFeedTime = foldEvents[1].ts
    /\ foldCore.lastNapDuration = Null
    /\ foldCore.totalDaySleep = 0

-----------------------------------------------------------------------------
(* Claims about RoutineStarted (specification Pipe) *)

WithoutRoutine(log) == SelectSeq(log, LAMBDA e : e.type # "RoutineStarted")

\* the pipeline run on the raw log without its RoutineStarted events
PipedWithoutRoutine == rebuildFromLog(WithoutRoutine(rawLog), nowUtcMs, rawSuppressed)

SameCoreAndSynthesis(st, log, stBare, logBare) ==
    /\ CoreOf(st) = CoreOf(stBare)
    /\ AddedBy(st.eventLog, log) = AddedBy(stBare.eventLog, logBare)
    /\ WithoutRoutine(st.eventLog) = stBare.eventLog

\* C32: RoutineStarted has no state effect. For every log, now and
\* suppression list, the pipeline run on the log and the pipeline run on the
\* log without its RoutineStarted events give the same CoreState and the
\* same synthesized events (RoutineStarted is left out of the horizon and
\* skipped by the fold); the outputs differ by the RoutineStarted events
\* only. (For a log without RoutineStarted the two runs are the same run.)
C32_RoutineStartedNoEffect ==
    WithoutRoutine(rawLog) # rawLog =>
        SameCoreAndSynthesis(piped, rawLog, PipedWithoutRoutine, WithoutRoutine(rawLog))

\* C32 witness: a RoutineStarted that is due and later than every other real
\* event of the log; the walk stops before it, at the latest of the others,
\* where a walk up to the RoutineStarted would add one more event.
C32_Witness ==
    /\ Some(rawLog, LAMBDA e : e.type = "RoutineStarted" /\ e.ts <= nowUtcMs)
    /\ RealCoreCount(rawLog) >= 1
    /\ Latest(RealCoreTimes(rawLog)) < T(9, 30)
    /\ AddedBy(piped.eventLog, rawLog) # {}
    /\ \E e \in AddedBy(normalizeEventLog(
                            Append(WithoutRoutine(rawLog),
                                   buildEvent("SolidsGiven", T(9, 30), 9)),
                            nowUtcMs, rawSuppressed),
                        rawLog) :
           /\ e.auto
           /\ ~InLog(e, piped.eventLog)

-----------------------------------------------------------------------------
(* Claims about what sleep pressure depends on (specification Fold) *)

\* a shortest event list whose fold has the given lastWakeTime and
\* lastNapDuration
CanonicalLog(lastWakeTime, lastNapDuration) ==
    IF lastWakeTime = Null THEN << >>
    ELSE IF lastNapDuration = Null
         THEN << buildEvent("FirstAwake", lastWakeTime, 1) >>
         ELSE << buildEvent("NapStarted", lastWakeTime - lastNapDuration, 1),
                 buildEvent("NapEnded", lastWakeTime, 2) >>

CanonicalCore(core, now) ==
    recomputeCoreState(CanonicalLog(core.lastWakeTime, core.lastNapDuration), now)

SamePressureAs(core, other) ==
    /\ other.lastWakeTime = core.lastWakeTime
    /\ other.lastNapDuration = core.lastNapDuration
    /\ other.estimatedSleepPressure = core.estimatedSleepPressure

\* C33: sleep pressure is a function of (lastWakeTime, lastNapDuration, now)
\* only. The log reduced and the shortest log with the same lastWakeTime and
\* lastNapDuration, reduced at the same now, have the same
\* estimatedSleepPressure, whatever the other events and whatever calls were
\* made before; so any two logs that agree on the two fields agree on it.
C33_PressureDependsOnWakeAndNap ==
    SamePressureAs(foldCore, CanonicalCore(foldCore, nowUtcMs))

\* C33 witness: a log with a feed and a short nap before a later sleep
\* start; it differs from the shortest log in lastFeedTime, lastNapStart and
\* regulationLevel inputs, and the nap penalty is part of the pressure.
C33_Witness ==
    /\ Len(foldEvents) = 3
    /\ foldCore.lastNapDuration # Null
    /\ foldCore.lastNapDuration > 0
    /\ foldCore.lastNapDuration < 45 * MS_MIN
    /\ foldCore.estimatedSleepPressure > nowUtcMs - foldCore.lastWakeTime
    /\ foldCore.estimatedSleepPressure < PressureDen
    /\ foldCore.lastNapStart # CanonicalCore(foldCore, nowUtcMs).lastNapStart
    /\ foldCore.totalDaySleep = foldCore.lastNapDuration

\* the day's sleep total differs from the last nap's duration, which a
\* FirstAwake has cleared
C33_TotalDiffers ==
    /\ foldCore.lastWakeTime # Null
    /\ foldCore.lastNapDuration = Null
    /\ foldCore.totalDaySleep > 0
    /\ foldCore.totalDaySleep < 45 * MS_MIN
    /\ foldCore.estimatedSleepPressure = nowUtcMs - foldCore.lastWakeTime
    /\ foldCore.estimatedSleepPressure > 0

-----------------------------------------------------------------------------
(* Claims about the state with no wake time (specification Proj) *)

\* the output fields of the claim
CalibrationFields(out) ==
    [ nextWindow       |-> out.nextWindow,
      nextHardStop     |-> out.nextHardStop,
      wakeUtilization  |-> out.pressureIndicator.wakeUtilization,
      shiftPreview     |-> out.shiftPreview,
      windowAllowed    |-> out.windowCategories.allowed,
      windowSuppressed |-> out.windowCategories.suppressed,
      activityAllowed  |-> [ i \in DOMAIN out.activityCategories.allowed |->
                                 out.activityCategories.allowed[i].label ],
      activitySuppressed |-> [ i \in DOMAIN out.activityCategories.suppressed |->
                                   out.activityCategories.suppressed[i].label ] ]

\* what the claim says they are
AwaitingFirstAwake ==
    [ nextWindow       |-> NullText,
      nextHardStop     |-> NullText,
      wakeUtilization  |-> Null,
      shiftPreview     |-> << Shift([ rule |-> "First awake marker -> system window active",
                                      n |-> 0, m |-> 0 ],
                                    "pending") >>,
      windowAllowed    |-> << "Log first awake" >>,
      windowSuppressed |-> << "High stimulation", "New novel activities" >>,
      activityAllowed  |-> << "Log first awake", "Record a feed",
                              "Start routine when ready" >>,
      activitySuppressed |-> << "High stimulation", "New novel activities" >> ]

\* C34: no-wake-yet state. For every CoreState with lastWakeTime unset the
\* next-window and hard-stop fields are null, wakeUtilization is null,
\* shiftPreview is the single pending 'First awake marker' entry and the
\* categories are the fixed 'not yet calibrated' labels (allowed: Log first
\* awake / Record a feed / Start routine when ready; suppressed: High
\* stimulation / New novel activities), whatever now and the other fields.
C34_NotYetCalibrated ==
    foldCore.lastWakeTime = Null =>
        /\ CalibrationFields(outputs) = AwaitingFirstAwake
        /\ outputs.nextWindowStartUtc = Null
        /\ outputs.nextWindowEndUtc = Null
        /\ outputs.nextHardStopUtc = Null
        /\ \A i \in DOMAIN outputs.activityCategories.allowed :
               outputs.activityCategories.allowed[i].expiresAt = Null

\* C34 witness: no wake time is known while a sleep start and a feed are,
\* now is past the sleep start, and the state reads as asleep
C34_Witness ==
    /\ foldCore.lastWakeTime = Null
    /\ foldCore.lastNapStart # Null
    /\ foldCore.lastFeedTime # Null
    /\ foldCore.regulationLevel # initialCoreState.regulationLevel
    /\ nowUtcMs > foldCore.lastNapStart
    /\ outputs.isAsleep
    /\ outputs.expectedWakeUtc # Null
    /\ CalibrationFields(outputs) = AwaitingFirstAwake

\* with a wake time known none of the fields is as in the no-wake state
C34_CalibratedDiffers ==
    /\ foldCore.lastWakeTime # Null
    /\ ~outputs.isAsleep
    /\ \A f \in DOMAIN AwaitingFirstAwake :
           CalibrationFields(outputs)[f] # AwaitingFirstAwake[f]

-----------------------------------------------------------------------------
(* Claims about event ids (specifications Spec, Walk) *)

UniqueIds(log) == \A i, j \in 1..Len(log) : log[i].id = log[j].id => i = j

\* C35: event ids are unique. In every state reachable by append, edit,
\* delete and clock-tick operations no two events of the event log share an
\* id, also after an auto-predicted event has been edited to a new time.
C35_UniqueIds == UniqueIds(state.eventLog)

\* an edited event that kept the id of the auto-predicted event it was, next
\* to that event synthesized again at its old time
C35_EditedBesideResynthesized ==
    \E i, j \in 1..Len(state.eventLog) :
        /\ state.eventLog[i].id = state.eventLog[j].id
        /\ state.eventLog[i].auto
        /\ state.eventLog[i].ts = state.eventLog[i].id.t
        /\ ~state.eventLog[j].auto
        /\ state.eventLog[j].ts # state.eventLog[j].id.t

\* the ids of a log the pipeline builds from logged events alone are unique
C35_UniqueWithoutEdits == UniqueIds(piped.eventLog)

-----------------------------------------------------------------------------
(* Claims about logging a feed (specification Spec) *)

FeedTypes == { "MilkGiven", "SolidsGiven" }

\* C36: logging a feed never puts the infant to sleep. For every state the
\* pipeline produced that reads as awake, appending a real MilkGiven or
\* SolidsGiven stamped now through applyEvent gives a state that still
\* reads as awake and whose lastWakeTime is unchanged.
C36_FeedKeepsAwake ==
    [][ \A selectedEvent \in FeedTypes :
            ( /\ addEvent(selectedEvent)
              /\ state # initialAppState
              /\ ~currentlyAsleep(state) )
            => ( /\ ~currentlyAsleep(state')
                 /\ state'.lastWakeTime = state.lastWakeTime ) ]_vars

\* what a logged feed does guarantee: it is the last feed known
C36_FeedRecorded ==
    [][ \A selectedEvent \in FeedTypes :
            addEvent(selectedEvent) =>
                /\ state'.lastFeedTime = nowUtcMs
                /\ state'.timeSinceLastFeed = 0 ]_vars

\* the state after the feed that put the infant to sleep: the feed is the
\* latest real event, stamped now, and a NapStarted synthesized before it is
\* the sleep start in force
C36_AsleepAfterFeed ==
    /\ currentlyAsleep(state)
    /\ ~effectPending
    /\ state.lastFeedTime = nowUtcMs
    /\ \E i \in 1..Len(state.eventLog) :
           /\ state.eventLog[i].auto
           /\ state.eventLog[i].type = "NapStarted"
           /\ state.eventLog[i].ts = state.lastNapStart
    /\ \E i \in 1..Len(state.eventLog) :
           /\ ~state.eventLog[i].auto
           /\ state.eventLog[i].ts < state.lastNapStart

-----------------------------------------------------------------------------
(* Claims about the day's sleep total (specification Fold) *)

\* the positions of the NapEnded events that end a sleep interval: a sleep
\* start lies before them with no NapEnded and no FirstAwake in between
IntervalEnds(events) ==
    { j \in 1..Len(events) :
          /\ events[j].type = "NapEnded"
          /\ \E i \in 1..(j - 1) :
                 /\ events[i].type \in { "NapStarted", "Asleep" }
                 /\ \A k \in (i + 1)..(j - 1) :
                        events[k].type \notin { "NapEnded", "FirstAwake" } }

\* the sum of the sleep-start-to-next-NapEnded intervals
IntervalSum(events) == RefSum(events, IntervalEnds(events))

NoIntervalTwice(events, core, now) ==
    /\ events # << >> => core.totalDaySleep <= now - events[1].ts
    /\ core.totalDaySleep = IntervalSum(events)

\* C37: totalDaySleep counts no interval twice. For every time-ordered event
\* sequence and every now, totalDaySleep is at most now minus the earliest
\* processed event timestamp and equals the sum over the NapStarted/Asleep
\* to next NapEnded intervals; a second NapEnded with no sleep start in
\* between adds nothing.
C37_NoIntervalTwice ==
    NoIntervalTwice(DueEvents(foldEvents, nowUtcMs), foldCore, nowUtcMs)

\* a sleep start followed by two NapEnded events: the time from the start to
\* the first NapEnded is in the total twice
C37_CountedTwice ==
    /\ Len(foldEvents) = 3
    /\ DueEvents(foldEvents, nowUtcMs) = foldEvents
    /\ foldEvents[1].type = "NapStarted"
    /\ foldEvents[2].type = "NapEnded"
    /\ foldEvents[3].type = "NapEnded"
    /\ foldEvents[2].ts > foldEvents[1].ts
    /\ foldCore.totalDaySleep =
           (foldEvents[2].ts - foldEvents[1].ts) + (foldEvents[3].ts - foldEvents[1].ts)
    /\ foldCore.totalDaySleep > nowUtcMs - foldEvents[1].ts

\* the total is as claimed for every list in which each NapEnded that
\* follows a sleep start ends an interval
C37_TotalWhenEachEndsOnce ==
    LET events == DueEvents(foldEvents, nowUtcMs)
    IN  RefClosing(events) = IntervalEnds(events) =>
            NoIntervalTwice(events, foldCore, nowUtcMs)

-----------------------------------------------------------------------------
(* Claims about the activity tier over time (specification Proj) *)

\* the place of the reported tier in the order of the claim, read from the
\* first allowed activity; 0 for the lists of no tier
TierRank(out) ==
    LET allowed == out.activityCategories.allowed
    IN  IF allowed = << >> THEN 0
        ELSE CASE allowed[1].label = "Low-stim movement" -> 1
               [] allowed[1].label = "Active play" -> 2
               [] allowed[1].label = "Wind-down" -> 3
               [] allowed[1].label = "Minimal stimulation" -> 4
               [] OTHER -> 0

\* the fixed CoreState is awake with a wake time known
AwakeCore(core) == core.lastWakeTime # Null /\ ~currentlyAsleep(core)

\* from the outputs at now to those of the same CoreState at a later now the
\* tier does not go back and the remaining minutes do not grow
TierMovesForward(out, later) ==
    /\ TierRank(out) \in 1..4
    /\ TierRank(later) \in 1..4
    /\ TierRank(later) >= TierRank(out)
    /\ later.wakeWindowRemainingMin <= out.wakeWindowRemainingMin
    /\ out.wakeWindowRemainingMin >= 0
    /\ TierRank(out) = 4 => out.wakeWindowRemainingMin = 0
    /\ TierRank(later) = 4 => later.wakeWindowRemainingMin = 0

\* C38: the activity tier only moves forward as time passes. For a fixed
\* awake CoreState and configuration, as now advances the reported tier
\* follows the order low-stimulation, moderate/active, wind-down,
\* minimal-stimulation and never returns to an earlier one, and
\* wakeWindowRemainingMin is non-increasing and is 0 no later than the start
\* of the minimal-stimulation tier.
C38_TierMovesForward ==
    (AwakeCore(foldCore) /\ foldCore.lastWakeTime <= nowUtcMs) =>
        \A later \in ProjNows :
            later > nowUtcMs =>
                TierMovesForward(outputs, computeOutputs(foldCore, later, defaultConfig))

\* C38 witness: an awake CoreState in the low-stimulation tier with minutes
\* remaining, which the later instants take through each of the other tiers
\* to minimal stimulation with none remaining
C38_Witness ==
    /\ AwakeCore(foldCore)
    /\ TierRank(outputs) = 1
    /\ outputs.wakeWindowRemainingMin > 0
    /\ \A rank \in 2..4 :
           \E later \in ProjNows :
               /\ later > nowUtcMs
               /\ TierRank(computeOutputs(foldCore, later, defaultConfig)) = rank
    /\ \E later \in ProjNows :
           /\ TierRank(computeOutputs(foldCore, later, defaultConfig)) = 3
           /\ computeOutputs(foldCore, later, defaultConfig).wakeWindowRemainingMin
                  \in 1..(outputs.wakeWindowRemainingMin - 1)
    /\ \E later \in ProjNows :
           /\ TierRank(computeOutputs(foldCore, later, defaultConfig)) = 4
           /\ computeOutputs(foldCore, later, defaultConfig).wakeWindowRemainingMin = 0

\* no minute remains while the tier is still wind-down: the wake window is
\* used up exactly, and the minimal-stimulation tier starts a minute later
C38_ZeroBeforeMinimal ==
    /\ AwakeCore(foldCore)
    /\ TierRank(outputs) = 3
    /\ outputs.wakeWindowRemainingMin = 0

-----------------------------------------------------------------------------
(* Claims about the log the Normalizer returns (specification Pipe) *)

SortedByTs(log) == \A i \in 1..(Len(log) - 1) : log[i].ts <= log[i + 1].ts

\* the log holds a FirstAwake stamped at or before now
FirstAwakeDue(log, now) ==
    \E i \in 1..Len(log) : log[i].type = "FirstAwake" /\ log[i].ts <= now

ReturnedLogCalibrates(st, now, out) ==
    /\ FirstAwakesOf(st.eventLog) # {}
    /\ SortedByTs(st.eventLog)
    /\ FirstAwakeDue(st.eventLog, now) =>
           /\ st.lastWakeTime # Null
           /\ out.windowCategories.allowed # << "Log first awake" >>
           /\ out.activityCategories # [ allowed    |-> CategoriesNotCalibrated.activityAllowed,
                                         suppressed |-> CategoriesNotCalibrated.activitySuppressed ]
           /\ Len(out.shiftPreview) = 3

\* C39: every log normalizeEventLog returns holds at least one FirstAwake and
\* is sorted ascending by timestamp; hence after a pipeline run in which that
\* FirstAwake is at or before now, lastWakeTime is set and the 'not yet
\* calibrated' tier is not reported.
C39_FirstAwakeAndSorted ==
    ReturnedLogCalibrates(piped, nowUtcMs, computeOutputs(piped, nowUtcMs, defaultConfig))

\* C39 witness: a raw log without FirstAwake, logged out of time order; the
\* returned log is sorted, starts with the FirstAwake added, and the state
\* projected from it reports a tier of an awake infant
C39_Witness ==
    /\ Len(rawLog) >= 2
    /\ ~SortedByTs(rawLog)
    /\ FirstAwakesOf(rawLog) = {}
    /\ SortedByTs(piped.eventLog)
    /\ piped.eventLog[1].type = "FirstAwake"
    /\ piped.eventLog[1].auto
    /\ piped.lastWakeTime # Null
    /\ TierRank(computeOutputs(piped, nowUtcMs, defaultConfig)) \in 1..4

\* in the App a logged FirstAwake edited to an instant after now: the log
\* holds a FirstAwake and is sorted, none is due, and no wake time is known
C39_FirstAwakeNotYetDue ==
    /\ ~effectPending
    /\ FirstAwakesOf(state.eventLog) # {}
    /\ SortedByTs(state.eventLog)
    /\ ~FirstAwakeDue(state.eventLog, nowUtcMs)
    /\ state.lastWakeTime = Null
    /\ RenderedOutputs.windowCategories.allowed = << "Log first awake" >>

-----------------------------------------------------------------------------
(* Claims about the CoreState and the future (specification Fold) *)

TimestampFields == { "lastWakeTime", "lastNapStart", "lastNapEnd", "lastFeedTime" }

ElapsedFields == { "timeSinceLastFeed", "lastNapDuration", "totalDaySleep" }

NothingFromTheFuture(core, now) ==
    /\ \A f \in TimestampFields : core[f] # Null => core[f] <= now
    /\ \A f \in ElapsedFields : core[f] # Null => core[f] >= 0
    /\ core.lastWakeTime # Null => minutesFromMs(now - core.lastWakeTime) >= 0

\* C40: the CoreState never refers to the future. After
\* recomputeCoreState(events, now) every non-null timestamp field
\* (lastWakeTime, lastNapStart, lastNapEnd, lastFeedTime) is <= now, and
\* timeSinceLastFeed, lastNapDuration and totalDaySleep are >= 0; hence the
\* elapsed-awake minutes of the Projector are never negative.
C40_NothingFromTheFuture == NothingFromTheFuture(foldCore, nowUtcMs)

\* C40 witness: a nap that is over and a feed stamped after now; the nap
\* fields are set from the past, and the feed is not known yet although the
\* fold at its own instant takes it
C40_Witness ==
    /\ Len(foldEvents) = 3
    /\ foldEvents[3].type \in { "MilkGiven", "SolidsGiven" }
    /\ foldEvents[3].ts # NaN
    /\ foldEvents[3].ts > nowUtcMs
    /\ foldCore.lastNapStart # Null
    /\ foldCore.lastNapEnd = nowUtcMs
    /\ foldCore.lastWakeTime = nowUtcMs
    /\ foldCore.lastNapDuration > 0
    /\ foldCore.lastFeedTime = Null
    /\ foldCore.timeSinceLastFeed = Null
    /\ recomputeCoreState(foldEvents, foldEvents[3].ts).lastFeedTime = foldEvents[3].ts

\* the same for the CoreState of every pipeline run
C40_PipelineStateToo == NothingFromTheFuture(piped, nowUtcMs)

=============================================================================
